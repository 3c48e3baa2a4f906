---------------------------- MODULE FeedListener ----------------------------
(***************************************************************************)
(* The feed listener of src/feed/mod.rs: a task that connects to the       *)
(* sequencer feed, parses every message and forwards it to the engine's    *)
(* bounded channel with try_send, reconnecting for ever.  Nothing orders   *)
(* its first connection before the engine's reserve fetch.                 *)
(***************************************************************************)
EXTENDS L2Chain

CONSTANTS
    FeedCap,      \* capacity of the feed channel (8192 in src/engine/mod.rs)
    FeedFaults    \* what may go wrong with the feed, a subset of FeedFaultKinds

FeedFaultKinds ==
    { "disconnect",  \* a connection ends
      "gap",         \* a new connection starts past messages not seen yet
      "replay",      \* a new connection starts at messages seen before
      "garbled" }    \* a frame does not deserialize

ASSUME FeedTyped == FeedCap \in Nat \ {0} /\ FeedFaults \subseteq FeedFaultKinds

VARIABLES
    connected,  \* a WebSocket connection is up
    fed,        \* sequence number of the last message this connection gave
    feedChan,   \* the feed channel: sequence numbers of parsed messages
    rxOpen,     \* the engine still holds feed_rx
    lost,       \* history: parsed or not, messages that never entered feedChan
    repeated    \* history: messages the feed gave again

feedVars == <<connected, fed, feedChan, rxOpen, lost, repeated>>

InitFeed ==
    /\ connected = FALSE
    /\ fed = 0
    /\ feedChan = <<>>
    /\ rxOpen = TRUE
    /\ lost = {}
    /\ repeated = {}

-----------------------------------------------------------------------------
\* Where a new connection may start: where the last one stopped, past messages
\* sequenced meanwhile, or at messages given before.  Bound: a message is
\* given at most twice.
StartPoints ==
    {fed} \cup { n \in fed + 1 .. ChainHead : "gap" \in FeedFaults }
          \cup { n \in 0 .. fed - 1 : /\ "replay" \in FeedFaults
                                      /\ (n + 1 .. fed) \cap repeated = {} }

\* connect_async succeeds.
Connect ==
    /\ ~connected
    /\ connected' = TRUE
    /\ \E start \in StartPoints :
          /\ fed' = start
          /\ lost' = lost \cup (fed + 1 .. start)
          /\ repeated' = repeated \cup (start + 1 .. fed)
    /\ UNCHANGED <<feedChan, rxOpen>>

\* The stream ends, with or without an error; the loop connects again.
Disconnect ==
    /\ "disconnect" \in FeedFaults
    /\ connected
    /\ connected' = FALSE
    /\ UNCHANGED <<fed, feedChan, rxOpen, lost, repeated>>

\* Mutant of Forward: the listener overwrites the oldest buffered message.
ForwardOverOldest(n) ==
    IF rxOpen
    THEN /\ feedChan' = IF Len(feedChan) < FeedCap THEN Append(feedChan, n)
                        ELSE Append(Tail(feedChan), n)
         /\ UNCHANGED lost
    ELSE /\ lost' = lost \cup {n}
         /\ UNCHANGED feedChan

\* tx.try_send(seq_tx): dropped when the channel is full or its receiver gone.
Forward(n) ==
    IF rxOpen /\ Len(feedChan) < FeedCap
    THEN /\ feedChan' = Append(feedChan, n)
         /\ UNCHANGED lost
    ELSE /\ lost' = lost \cup {n}
         /\ UNCHANGED feedChan

\* process_text_frame, one message: everything that parses is forwarded,
\* whatever its is_arbitrable flag.
ProcessMessage ==
    /\ connected
    /\ fed < ChainHead
    /\ fed' = fed + 1
    /\ IF Parsed(txs[fed + 1]) THEN Forward(fed + 1)
                               ELSE UNCHANGED <<feedChan, lost>>
    /\ UNCHANGED <<connected, rxOpen, repeated>>

\* process_text_frame returns early on a frame it cannot deserialize.
GarbledFrame ==
    /\ "garbled" \in FeedFaults
    /\ connected
    /\ fed < ChainHead
    /\ fed' = fed + 1
    /\ lost' = lost \cup {fed + 1}
    /\ UNCHANGED <<connected, feedChan, rxOpen, repeated>>

FeedNext == Connect \/ Disconnect \/ ProcessMessage \/ GarbledFrame
=============================================================================
