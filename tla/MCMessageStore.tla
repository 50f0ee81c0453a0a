-------------------------- MODULE MCMessageStore --------------------------
\* The constants of the runs of MessageStore: two passphrases and two peers.
EXTENDS MessageStore

============================================================================
