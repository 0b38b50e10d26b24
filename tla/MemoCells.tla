------------------------------ MODULE MemoCells ------------------------------
(***************************************************************************)
(* What the library's two lazy caches promise, with no lock and no memory: *)
(* one cell per key, filled once by a successful attempt and handed out    *)
(* unchanged to every later query.  A failed attempt leaves the cell       *)
(* empty, so the next query tries again.                                   *)
(*                                                                         *)
(* CodecCache.tla implements it with codecs for keys and capabilities for  *)
(* answers, Instance.tla with device indices and opened devices.           *)
(***************************************************************************)
CONSTANTS
    Threads,        \* the threads that query
    Keys,           \* what they ask for
    Answers,        \* what an attempt may yield
    NoAnswer,       \* nothing known, nothing handed out
    Failed          \* the attempt returned an error

VARIABLES
    memo,           \* key -> what is known of it
    asked,          \* thread -> the key it last asked for
    handed          \* thread -> what the query in progress has been handed

memoVars == <<memo, asked, handed>>

MemoInit ==
    /\ memo = [k \in Keys |-> NoAnswer]
    /\ asked \in [Threads -> Keys]
    /\ handed = [t \in Threads |-> NoAnswer]

\* A thread asks for a key.
Ask(t, k) ==
    /\ handed[t] = NoAnswer
    /\ asked' = [asked EXCEPT ![t] = k]
    /\ UNCHANGED <<memo, handed>>

\* The key is known: its cell is handed out.
Hit(t) ==
    /\ handed[t] = NoAnswer
    /\ memo[asked[t]] # NoAnswer
    /\ handed' = [handed EXCEPT ![t] = memo[asked[t]]]
    /\ UNCHANGED <<memo, asked>>

\* The key is unknown and the attempt succeeds.
Fill(t) ==
    /\ handed[t] = NoAnswer
    /\ memo[asked[t]] = NoAnswer
    /\ \E answer \in Answers :
          /\ memo' = [memo EXCEPT ![asked[t]] = answer]
          /\ handed' = [handed EXCEPT ![t] = answer]
    /\ UNCHANGED asked

\* The key is unknown and the attempt fails: nothing is remembered.
Miss(t) ==
    /\ handed[t] = NoAnswer
    /\ memo[asked[t]] = NoAnswer
    /\ handed' = [handed EXCEPT ![t] = Failed]
    /\ UNCHANGED <<memo, asked>>

\* The query returns to the application.
Return(t) ==
    /\ handed[t] # NoAnswer
    /\ handed' = [handed EXCEPT ![t] = NoAnswer]
    /\ UNCHANGED <<memo, asked>>

MemoNext ==
    \E t \in Threads :
        \/ \E k \in Keys : Ask(t, k)
        \/ Hit(t)
        \/ Fill(t)
        \/ Miss(t)
        \/ Return(t)

MemoSpec == MemoInit /\ [][MemoNext]_memoVars
=============================================================================
