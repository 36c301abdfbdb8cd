\* A keep-alive server (its callback does not close) and a peer that
\* pipelines its requests.
CONSTANTS
    Methods <- MCMethods
    Scripts <- MCScripts
    MaxChunk = 4
    Pipelining = TRUE
    DefaultCallback = FALSE
SPECIFICATION Spec
\* The peer's script is finite: once it is all sent nothing else happens.
CHECK_DEADLOCK FALSE
PROPERTY RequestsAnswered
