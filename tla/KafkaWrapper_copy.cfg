\* Clients stop at their bounds.
CHECK_DEADLOCK FALSE
SPECIFICATION KafkaSpec
CONSTANTS
    MaxMessages = 2
    MaxRestarts = 1
    Buffers = {FALSE}
INVARIANTS
    ValueCopied
