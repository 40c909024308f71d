--------------------------------- MODULE Posts ---------------------------------
(***************************************************************************)
(* The two lists of posts.  SocialMediaPosts has all posts and turns their *)
(* pages itself.  News has those of the page that its query asks the       *)
(* server for: NewsPosts keeps the number of the page, NewsWrapper the     *)
(* query, which are the parameters of useNewsPostData.                     *)
(***************************************************************************)
EXTENDS PaginatedTable

CONSTANTS
  POSTS_PER_PAGE,
  PostsAt, \* the posts each url answers with, in order
  NewsFor  \* the posts a search finds, in order

ASSUME PostsAssumption ==
  /\ POSTS_PER_PAGE \in Nat \ {0}
  /\ \A u \in ValuesOf["url"] : PostsAt[u] \in Seq(Range(PostsAt[u]))
  /\ ValuesOf["limit"] \subseteq Nat \ {0}
  /\ \A q \in ValuesOf["search"] : NewsFor[q] \in Seq(Range(NewsFor[q]))

VARIABLE posts \* the state of SocialMediaPosts or of NewsPosts

NewPosts ==
  [currentPage |-> 1,
   seen |-> Absent,      \* urlHash in the last render
   touched |-> FALSE,    \* the user has turned the page since the effect did
   strayed |-> FALSE]    \* the page and the query have come apart

PostsOf(answers) == IF answers = <<>> THEN <<>> ELSE PostsAt[Last(answers).params.url]

(* The data is an error: News shows an Alert in the place of NewsPosts.    *)
NewsFailed(answers) == answers # <<>> /\ ~Last(answers).found

(* The page of the answer, and calcTotalItems. *)
NewsOf(answers) ==
  IF answers = <<>> THEN <<>>
  ELSE LET query == Last(answers).params
           found == NewsFor[query.search]
       IN SubSeq(found, query.offset + 1, Min({query.offset + query.limit, Len(found)}))

calcTotalItems(answers) ==
  IF answers = <<>> THEN 1 ELSE Max({1, Len(NewsFor[Last(answers).params.search])})

PageOfPost(i, perPage) == 1 + ((i - 1) \div perPage)

(* The effect of [urlHash, hash, data] turns the page. *)
TurnsPage(p, ids, urlHash, changed) ==
  (changed \/ urlHash # p.seen) /\ FirstContained(ids, urlHash) # {}

(* A render.  In the news the index is that in the page, so that a post of *)
(* a later page is sought on the first. *)
PostsRendered(p, ids, urlHash, changed, perPage) ==
  IF TurnsPage(p, ids, urlHash, changed)
  THEN [NewPosts EXCEPT !.seen = urlHash,
                        !.currentPage = PageOfPost(Min(FirstContained(ids, urlHash)), perPage)]
  ELSE [p EXCEPT !.seen = urlHash]

(* The page antd shows of so many posts: the last one if there is no such. *)
PageOnScreen(p, total, perPage) ==
  Min({p.currentPage, Max({1, PageOfPost(total, perPage)})})

PostsShown(p, ids) ==
  {ids[i] : i \in {j \in DOMAIN ids : PageOfPost(j, POSTS_PER_PAGE)
                                        = PageOnScreen(p, Len(ids), POSTS_PER_PAGE)}}

(* onChange of the pagination of SocialMediaPosts. *)
TurnTo(p, page) == [p EXCEPT !.currentPage = page, !.touched = TRUE]

(* Mutant: the offset moves by page. *)
updatePageByPage(query, page) == [query EXCEPT !.offset = page - 1]

(* updatePage: the query and the page.  The number may be one of another   *)
(* search, whose answer is still shown. *)
updatePage(query, page) == [query EXCEPT !.offset = (page - 1) * query.limit]
NewsTurnedTo(p, query, answers, page) ==
  [p EXCEPT !.currentPage = page, !.touched = TRUE,
            !.strayed = answers # <<>> /\ Last(answers).params.search # query.search]

(* onSearch: page and offset stay what they are, however few posts it      *)
(* finds. *)
onSearch(query, value) == [query EXCEPT !.search = value]
NewsSearched(p, query) == [p EXCEPT !.strayed = @ \/ query.offset # 0]

(* NewsPosts comes back with its first page after an error, whatever the   *)
(* query has been asking for. *)
NewsPostsMounted(query) == [NewPosts EXCEPT !.strayed = query.offset # 0]
=============================================================================
