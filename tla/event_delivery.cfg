SPECIFICATION FairSpec
CONSTANTS
    a = a
    b = b
    Events <- Two
    PostedBefore = 1
    MaxPosts = 3
    MayFail = TRUE
INVARIANT NeverDeaf
PROPERTIES Delivered FeedSpec
CHECK_DEADLOCK FALSE
