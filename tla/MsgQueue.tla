------------------------------ MODULE MsgQueue ------------------------------
(***************************************************************************)
(* One slot of queues[], src/harlin/proc/ipc.c, and the processes that use *)
(* it.  The slots share nothing.  A call runs without interruption: ipc.c  *)
(* takes no lock, and Scheduler shows what a slice that ends inside a call *)
(* does.  A process that blocks does not come back to its call; once woken *)
(* it is resumed in user code.                                             *)
(***************************************************************************)
EXTENDS Integers, Sequences, SequencesExt

CONSTANTS Pid,
          Type,                    \* message types processes send
          Want,                    \* expected_type arguments; 0 accepts every type
          IPC_MAX_MSG_PER_QUEUE,
          MaxBlocked,              \* length of blocked_senders and blocked_receivers
          MaxSent                  \* bound: messages sent

ASSUME MsgQueueAssumption ==
  /\ Type \subseteq Nat /\ Want \subseteq Nat
  /\ IPC_MAX_MSG_PER_QUEUE \in Nat \ {0}
  /\ MaxBlocked \in Nat \ {0}
  /\ MaxSent \in Nat

VARIABLES used, msgs, head, count, blocked_senders, blocked_receivers,
          asleep,                  \* processes in PROC_STATE_BLOCKED
          sent,                    \* messages stored so far; the n-th one has id n
          got,                     \* history: ids handed to receivers
          wants                    \* expected_type arguments in use; never changes

queue == <<used, msgs, head, count>>
msg_vars == <<queue, blocked_senders, blocked_receivers, asleep, sent, got, wants>>

Id == 1 .. MaxSent
Blank == [type |-> 0, id |-> 0, valid |-> FALSE]
At(k) == (head + k) % IPC_MAX_MSG_PER_QUEUE
Awake(p) == p \notin asleep

MsgInit ==
  /\ used = FALSE /\ head = 0 /\ count = 0
  /\ msgs = [i \in 0 .. IPC_MAX_MSG_PER_QUEUE - 1 |-> Blank]
  /\ blocked_senders = <<>> /\ blocked_receivers = <<>>
  /\ asleep = {} /\ sent = 0 /\ got = {}
  /\ wants \in {{0}, Want}

Harlin_MsgCreate ==
  /\ ~used /\ used' = TRUE /\ head' = 0 /\ count' = 0
  /\ blocked_senders' = <<>> /\ blocked_receivers' = <<>>
  /\ UNCHANGED <<msgs, asleep, sent, got, wants>>

\* Mutated WakeFirst: the pid stays on the list.
WakeKeepsEntry(list, list1) ==
  list1 = list /\ asleep' = IF list = <<>> THEN asleep ELSE asleep \ {Head(list)}

\* Take the first pid off a list and wake it.
WakeFirst(list, list1) ==
  IF list = <<>> THEN list1 = list /\ asleep' = asleep
  ELSE list1 = Tail(list) /\ asleep' = asleep \ {Head(list)}

\* Mutated SendStore: one message too many.
SendStoreOverfull(t) ==
  /\ count <= IPC_MAX_MSG_PER_QUEUE /\ sent < MaxSent
  /\ sent' = sent + 1
  /\ msgs' = [msgs EXCEPT ![At(count)] = [type |-> t, id |-> sent', valid |-> TRUE]]
  /\ count' = count + 1
  /\ WakeFirst(blocked_receivers, blocked_receivers')
  /\ UNCHANGED <<used, head, blocked_senders, got, wants>>

\* Harlin_MsgSend with room in the queue.
SendStore(t) ==
  /\ count < IPC_MAX_MSG_PER_QUEUE /\ sent < MaxSent
  /\ sent' = sent + 1
  /\ msgs' = [msgs EXCEPT ![At(count)] = [type |-> t, id |-> sent', valid |-> TRUE]]
  /\ count' = count + 1
  /\ WakeFirst(blocked_receivers, blocked_receivers')
  /\ UNCHANGED <<used, head, blocked_senders, got, wants>>

\* Harlin_MsgSend on a full queue wakes every receiver, then blocks or gives up.
SendFull(p) ==
  /\ count >= IPC_MAX_MSG_PER_QUEUE
  /\ blocked_receivers' = <<>>
  /\ \/ /\ Len(blocked_senders) >= MaxBlocked
        /\ asleep' = asleep \ ToSet(blocked_receivers)
        /\ blocked_senders' = blocked_senders
     \/ /\ Len(blocked_senders) < MaxBlocked
        /\ asleep' = (asleep \ ToSet(blocked_receivers)) \cup {p}
        /\ blocked_senders' = Append(blocked_senders, p)
  /\ UNCHANGED <<queue, sent, got, wants>>

Harlin_MsgSend(p, t) == used /\ Awake(p) /\ (SendStore(t) \/ SendFull(p))

Matches(k, want) ==
  msgs[At(k)].valid /\ (want = 0 \/ msgs[At(k)].type = want)

Window == 0 .. count - 1
IsFound(k, want) == k \in Window /\ Matches(k, want) /\ \A j \in 0 .. k - 1 : ~Matches(j, want)

\* Mutated Shifted: the message is not marked.
ShiftedUnmarked(k) ==
  [i \in DOMAIN msgs |->
     IF i = At(count - 1) THEN Blank
     ELSE IF \E j \in 0 .. count - 2 : i = At(j)
          THEN msgs[(i + 1) % IPC_MAX_MSG_PER_QUEUE]
          ELSE msgs[i]]

\* Mutated Shifted: the blank goes one entry too far.
ShiftedBlankPastEnd(k) ==
  [i \in DOMAIN msgs |->
     IF i = At(count) THEN Blank
     ELSE IF \E j \in 0 .. count - 2 : i = At(j)
          THEN msgs[(i + 1) % IPC_MAX_MSG_PER_QUEUE]
          ELSE msgs[i]]

\* The message is marked and then the whole queue moves down by one from its
\* head, wherever the message was.
Shifted(k) ==
  LET marked == [msgs EXCEPT ![At(k)].valid = FALSE]
  IN  [i \in DOMAIN msgs |->
        IF i = At(count - 1) THEN Blank
        ELSE IF \E j \in 0 .. count - 2 : i = At(j)
             THEN marked[(i + 1) % IPC_MAX_MSG_PER_QUEUE]
             ELSE msgs[i]]

RecvTake(want) ==
  \E k \in Window :
    /\ IsFound(k, want)
    /\ got' = got \cup {msgs[At(k)].id}
    /\ msgs' = Shifted(k)
    /\ count' = count - 1
    /\ WakeFirst(blocked_senders, blocked_senders')
    /\ UNCHANGED <<used, head, blocked_receivers, sent, wants>>

RecvNone(p, want) ==
  /\ \A k \in Window : ~Matches(k, want)
  /\ Len(blocked_receivers) < MaxBlocked
  /\ blocked_receivers' = Append(blocked_receivers, p)
  /\ asleep' = asleep \cup {p}
  /\ UNCHANGED <<queue, blocked_senders, sent, got, wants>>

Harlin_MsgRecv(p, want) == used /\ Awake(p) /\ (RecvTake(want) \/ RecvNone(p, want))

\* Wake everybody; the lists are left as they are.
Harlin_MsgDestroy ==
  /\ used /\ used' = FALSE
  /\ asleep' = asleep \ (ToSet(blocked_senders) \cup ToSet(blocked_receivers))
  /\ UNCHANGED <<msgs, head, count, blocked_senders, blocked_receivers, sent, got, wants>>

MsgNext ==
  \/ \E p \in Pid, t \in Type : Harlin_MsgSend(p, t)
  \/ \E p \in Pid, w \in wants : Harlin_MsgRecv(p, w)
  \/ \E p \in Pid : Awake(p) /\ (Harlin_MsgCreate \/ Harlin_MsgDestroy)

-----------------------------------------------------------------------------
\* The fields of the queue and its lists keep their types; the number of
\* messages stays within the array.
MsgTypeOK ==
  /\ used \in BOOLEAN
  /\ msgs \in [0 .. IPC_MAX_MSG_PER_QUEUE - 1 ->
                 [type : Type \cup {0}, id : Id \cup {0}, valid : BOOLEAN]]
  /\ head = 0 /\ count \in 0 .. IPC_MAX_MSG_PER_QUEUE
  /\ blocked_senders \in Seq(Pid) /\ Len(blocked_senders) <= MaxBlocked
  /\ blocked_receivers \in Seq(Pid) /\ Len(blocked_receivers) <= MaxBlocked
  /\ asleep \subseteq Pid
  /\ sent \in 0 .. MaxSent /\ got \subseteq Id

\* The k-th message of the queue can still be received.
Pending == {msgs[At(k)].id : k \in {j \in Window : msgs[At(j)].valid}}

\* Whatever types are asked for, a message that Harlin_MsgRecv has handed out is
\* never in the queue again, and no message is in it twice.
AtMostOnce ==
  used => /\ Pending \cap got = {}
          /\ \A j, k \in Window : msgs[At(j)].valid /\ msgs[At(k)].valid
                                    /\ msgs[At(j)].id = msgs[At(k)].id => j = k

\* While the queue exists the sleepers are exactly the processes on its two
\* lists, each listed once: every wake-up finds its process asleep, and nobody
\* sleeps out of reach of the wake-ups and of Harlin_MsgDestroy.
MsgSleepersListed ==
  LET all == blocked_senders \o blocked_receivers
  IN  IF used THEN asleep = ToSet(all) /\ IsInjective(all) ELSE asleep = {}

Fifo == INSTANCE BoundedFifo WITH
          Value <- Id, Capacity <- IPC_MAX_MSG_PER_QUEUE,
          open <- used /\ wants = {0},
          queue <- IF used /\ wants = {0}
                   THEN [k \in 1 .. count |-> msgs[At(k - 1)].id] ELSE <<>>

\* If receivers accept every type, the queue is a bounded FIFO of messages.
ImplementsFifo == Fifo!Spec

\* The architecture document: message queues support send and recv.  So a
\* message that was sent stays until it is received or the queue is destroyed.
NoMessageLost ==
  [][used' => \A m \in Pending : used => m \in Pending' \cup got']_msg_vars
=============================================================================
