-------------------------------- MODULE Bus ---------------------------------
(***************************************************************************)
(* One message type on the typed bus, crates/hyle-modules/src/bus.rs: a    *)
(* tokio broadcast channel of capacity Capacity, the senders of the bus    *)
(* clients that declared sender(M), and the receivers of those that        *)
(* declared receiver(M).  Senders run on separate tasks of a multi-thread  *)
(* runtime, so a sender's checks of receiver_count() and len() and its     *)
(* send() are separate steps that other tasks may interleave with.         *)
(*                                                                         *)
(* The channel is the number of messages sent so far (tail) and a read     *)
(* position per subscribed receiver; messages are numbered 1..tail.  As   *)
(* in tokio, a receiver subscribes at the tail, a send overwrites the      *)
(* oldest slot once Capacity values are queued, and a receiver that was    *)
(* overtaken gets Lagged and resumes at the oldest retained value.         *)
(***************************************************************************)
EXTENDS Naturals, Sequences, FiniteSets, FiniteSetsExt

CONSTANTS
    Senders,     \* sending tasks
    Waiting,     \* the senders that use send_waiting_if_full instead of send
    Receivers,   \* receiving bus clients
    Capacity,    \* BusMessage::CAPACITY
    Margin,      \* CAPACITY - CAPACITY_IF_WAITING (10 in the code)
    MaxSends     \* bound on messages per sender

CAPACITY_IF_WAITING == Capacity - Margin

ASSUME /\ Waiting \subseteq Senders /\ Margin < Capacity
       /\ MaxSends \in Nat

VARIABLES
    tail,        \* messages sent on the channel
    pos,         \* per receiver: messages it has consumed or skipped
    subscribed,  \* receivers alive
    dropped,     \* receivers that were dropped
    subFrom,     \* history: the tail when the receiver subscribed
    received,    \* history: the messages each receiver got, in order
    spc,         \* per sender: "idle", "waiting" (in the wait loop) or "checked"
    sends,       \* per sender: calls to send made so far
    errors       \* history: [sender, error] of every call that returned Err

vars == <<tail, pos, subscribed, dropped, subFrom, received, spc, sends, errors>>

-----------------------------------------------------------------------------

\* Sender::len: values not yet seen by every live receiver, at most Capacity.
ChannelLen ==
    IF subscribed = {} THEN 0
    ELSE tail - Max({Min({pos[r] : r \in subscribed}), tail - Capacity})

ReceiverCount == Cardinality(subscribed)

Init ==
    /\ tail = 0
    /\ pos = [r \in Receivers |-> 0]
    /\ subscribed = {}
    /\ dropped = {}
    /\ subFrom = [r \in Receivers |-> 0]
    /\ received = [r \in Receivers |-> <<>>]
    /\ spc = [s \in Senders |-> "idle"]
    /\ sends = [s \in Senders |-> 0]
    /\ errors = {}

\* receiver(): new_from_bus subscribes a bus client to the channel.
Subscribe(r) ==
    /\ r \notin subscribed \union dropped
    /\ subscribed' = subscribed \union {r}
    /\ pos' = [pos EXCEPT ![r] = tail]
    /\ subFrom' = [subFrom EXCEPT ![r] = tail]
    /\ UNCHANGED <<tail, dropped, received, spc, sends, errors>>

\* The bus client holding the receiver is dropped (its module has ended).
Unsubscribe(r) ==
    /\ r \in subscribed
    /\ subscribed' = subscribed \ {r}
    /\ dropped' = dropped \union {r}
    /\ UNCHANGED <<tail, pos, subFrom, received, spc, sends, errors>>

\* Fault-injection variant of Return: the Ok return is recorded as an error.
ReturnAlwaysErr(s, err) ==
    /\ sends' = [sends EXCEPT ![s] = @ + 1]
    /\ errors' = errors \union {[sender |-> s, error |-> err]}
    /\ UNCHANGED <<tail, pos, subscribed, dropped, subFrom, received, spc>>

\* A call returns without sending: Ok or an error.
Return(s, err) ==
    /\ sends' = [sends EXCEPT ![s] = @ + 1]
    /\ errors' = IF err = "none" THEN errors
                 ELSE errors \union {[sender |-> s, error |-> err]}
    /\ UNCHANGED <<tail, pos, subscribed, dropped, subFrom, received, spc>>

\* Fault-injection variant of CheckSend: refuses only above the soft cap.
CheckSendOffByOne(s) ==
    /\ s \notin Waiting
    /\ spc[s] = "idle"
    /\ sends[s] < MaxSends
    /\ CASE ReceiverCount = 0 -> Return(s, "none")
         [] ChannelLen > CAPACITY_IF_WAITING -> Return(s, "full")
         [] OTHER -> /\ spc' = [spc EXCEPT ![s] = "checked"]
                     /\ UNCHANGED <<tail, pos, subscribed, dropped, subFrom,
                                    received, sends, errors>>

\* send: no receiver, return Ok; at the soft cap, bail "Channel is full";
\* otherwise go on to the send.
CheckSend(s) ==
    /\ s \notin Waiting
    /\ spc[s] = "idle"
    /\ sends[s] < MaxSends
    /\ CASE ReceiverCount = 0 -> Return(s, "none")
         [] ChannelLen >= CAPACITY_IF_WAITING -> Return(s, "full")
         [] OTHER -> /\ spc' = [spc EXCEPT ![s] = "checked"]
                     /\ UNCHANGED <<tail, pos, subscribed, dropped, subFrom,
                                    received, sends, errors>>

\* send_waiting_if_full, on entry: no receiver, return Ok; otherwise enter
\* the wait loop.  receiver_count() is not checked again in the loop.
CheckWaiting(s) ==
    /\ s \in Waiting
    /\ spc[s] = "idle"
    /\ sends[s] < MaxSends
    /\ IF ReceiverCount = 0
       THEN Return(s, "none")
       ELSE /\ spc' = [spc EXCEPT ![s] = "waiting"]
            /\ UNCHANGED <<tail, pos, subscribed, dropped, subFrom, received,
                           sends, errors>>

\* The wait loop: sleep 100 ms while len() is at the soft cap (a failed
\* check is a stuttering step), then go on to the send.
WaitLoop(s) ==
    /\ spc[s] = "waiting"
    /\ ChannelLen < CAPACITY_IF_WAITING
    /\ spc' = [spc EXCEPT ![s] = "checked"]
    /\ UNCHANGED <<tail, pos, subscribed, dropped, subFrom, received, sends,
                   errors>>

\* broadcast::Sender::send after the checks: it fails when no receiver is
\* left ("Failed to send message"), and otherwise takes the next slot.
SendChecked(s) ==
    /\ spc[s] = "checked"
    /\ spc' = [spc EXCEPT ![s] = "idle"]
    /\ sends' = [sends EXCEPT ![s] = @ + 1]
    /\ IF ReceiverCount = 0
       THEN /\ errors' = errors \union {[sender |-> s, error |-> "closed"]}
            /\ UNCHANGED tail
       ELSE /\ tail' = tail + 1
            /\ UNCHANGED errors
    /\ UNCHANGED <<pos, subscribed, dropped, subFrom, received>>

\* recv: Lagged when the next value was overwritten (skip to the oldest
\* retained one), else the next value.  try_recv takes the same step without
\* awaiting; its Empty (nothing unread) changes nothing.
Recv(r) ==
    /\ r \in subscribed
    /\ pos[r] < tail
    /\ IF pos[r] < tail - Capacity
       THEN /\ pos' = [pos EXCEPT ![r] = tail - Capacity]
            /\ UNCHANGED received
       ELSE /\ pos' = [pos EXCEPT ![r] = @ + 1]
            /\ received' = [received EXCEPT ![r] = Append(@, pos[r] + 1)]
    /\ UNCHANGED <<tail, subscribed, dropped, subFrom, spc, sends, errors>>

Next ==
    \/ \E s \in Senders : CheckSend(s) \/ CheckWaiting(s) \/ WaitLoop(s) \/ SendChecked(s)
    \/ \E r \in Receivers : Subscribe(r) \/ Unsubscribe(r) \/ Recv(r)

Spec == Init /\ [][Next]_vars


-----------------------------------------------------------------------------
(* Properties                                                              *)

MaxMsgs == MaxSends * Cardinality(Senders)

TypeOK ==
    /\ tail \in 0..MaxMsgs
    /\ pos \in [Receivers -> 0..MaxMsgs]
    /\ subscribed \subseteq Receivers /\ dropped \subseteq Receivers
    /\ spc \in [Senders -> {"idle", "waiting", "checked"}]
    /\ subFrom \in [Receivers -> 0..MaxMsgs]
    /\ received \in [Receivers -> Seq(1..MaxMsgs)]
    /\ sends \in [Senders -> 0..MaxSends]
    /\ errors \subseteq [sender : Senders, error : {"full", "closed"}]

(* The bus keeps the broadcast promise (BroadcastChannel): a receiver     *)
(* consumes the messages published after it subscribed, one after the    *)
(* other and none skipped.  The soft cap of send and send_waiting_if_full *)
(* must absorb the race between their len() check and their send, so that *)
(* no send overwrites a value a live receiver has not read (no Lagged).   *)
(* The checks and a send to a channel without receivers are stuttering    *)
(* steps of the promise.                                                  *)
Broadcast == INSTANCE BroadcastChannel
                 WITH published <- tail, from <- subFrom,
                      delivered <- received, live <- subscribed,
                      gone <- dropped

BroadcastRefined == Broadcast!Spec

=============================================================================
