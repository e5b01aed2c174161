\* One episode: what the handlers of abandoned requests do to its container.
CONSTANTS
    Threads = {t1, t2}
    Main = main
    Sessions = {s1}
    Asked = {"edit", "finish"}
    Faults = {"create", "action", "finalize", "delete"}
    MaxLost = 3
SPECIFICATION RemoteFairSpec
PROPERTIES EpisodeReleases
\* Session ids run out after one episode.
CHECK_DEADLOCK FALSE
