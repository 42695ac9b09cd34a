SPECIFICATION ExamplesSpec
CONSTANTS
    Posters <- MCPosters
    Streams = {"ws"}
    Singles = {"post"}
    Rooms = {"room"}
    Users = {"u1", "u2"}
    Anyone = "anyone"
    Nobody = "nobody"
    At <- MCAt
    Author <- MCAuthor
    Filter <- MCFilter
    MaxPosts <- MCMaxPosts
    Callers = {"a", "b"}
    Keys = {"k", "l"}
    MaxBatch = 2
    MaxCalls = 3
INVARIANTS TypesOK FeedsFollowRoom UnracedPostsStay BatchesFetchedOnce ResultsMatch StaleOnlyIfRaced
PROPERTIES PostsReturn ObserversLeave LoadsReturn
CHECK_DEADLOCK FALSE
