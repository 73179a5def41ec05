--------------------------- MODULE Conversations ---------------------------
(***************************************************************************)
(* The communication centre: conversations of an organization, their       *)
(* members, messages numbered by a sequence, and read marks. A request has *)
(* its session already. It runs one READ COMMITTED transaction: what it    *)
(* inserts is visible to the others, and its unique keys conflict, once it *)
(* commits; until then a request that inserts the same key waits.          *)
(***************************************************************************)
EXTENDS Integers, FiniteSets
LOCAL INSTANCE FiniteSetsExt

CONSTANTS
  Clients,           \* concurrent requests
  Users,             \* users of all organizations
  OrgOf,             \* OrgOf[u]: the organization of a user
  Conversations,     \* conversation ids, in the order of their creation
  MaxMessages,       \* bound on the messages of a conversation
  MaxTime,           \* bound on the clock
  Nobody, Never      \* an idle request has no user; a null timestamp

ASSUME ConversationsAssumption ==
  /\ OrgOf \in [Users -> {OrgOf[u] : u \in Users}] /\ Nobody \notin Users
  /\ Conversations \subseteq Nat /\ {MaxMessages, MaxTime} \subseteq Nat
  /\ Never \notin Nat

VARIABLES
  members,   \* net_conversation_members: users by conversation; {} if it does not exist
  messages,  \* net_messages: [conv, sequence, sender, at], committed rows
  lastAt,    \* net_conversations.last_message_at
  readAt,    \* net_conversation_members.last_read_at
  now,       \* the clock of the database
  pc, actor, \* where each request stands, and the user of its session
  conv,      \* the conversation it is about
  begun,     \* now() of its transaction
  sequence   \* the number it got from net_next_message_sequence()

vars == <<members, messages, lastAt, readAt, now, pc, actor, conv, begun, sequence>>
tables == <<members, messages, lastAt, readAt>>
request == <<actor, conv, begun, sequence>>

Init ==
  /\ members = [k \in Conversations |-> {}]
  /\ messages = {}
  /\ lastAt = [k \in Conversations |-> Never]
  /\ readAt = [k \in Conversations |-> [u \in Users |-> Never]]
  /\ now = 0
  /\ pc = [c \in Clients |-> "idle"] /\ actor = [c \in Clients |-> Nobody]
  /\ conv = [c \in Clients |-> 0] /\ begun = [c \in Clients |-> 0]
  /\ sequence = [c \in Clients |-> 0]

Messages(k) == {m \in messages : m.conv = k}
SequencesOf(k) == {m.sequence : m \in Messages(k)}

Goto(c, label) == pc' = [pc EXCEPT ![c] = label]

Finish(c) ==
  /\ Goto(c, "idle")
  /\ actor' = [actor EXCEPT ![c] = Nobody] /\ conv' = [conv EXCEPT ![c] = 0]
  /\ begun' = [begun EXCEPT ![c] = 0] /\ sequence' = [sequence EXCEPT ![c] = 0]
  /\ UNCHANGED now

-----------------------------------------------------------------------------
(* createConversation                                                      *)

(* Every member belongs to the organization of the session.                *)
Admissible(u, invited) == \A v \in invited : OrgOf[v] = OrgOf[u]

(* The conversation and all of its members commit together. A refused one  *)
(* leaves nothing.                                                         *)
CreateConversation(u, invited) ==
  /\ Admissible(u, invited)
  /\ \E k \in Conversations :
       /\ members[k] = {} /\ \A j \in Conversations : j < k => members[j] # {}
       /\ members' = [members EXCEPT ![k] = {u} \cup invited]
  /\ UNCHANGED <<messages, lastAt, readAt, now, pc, request>>

-----------------------------------------------------------------------------
(* createMessage                                                           *)

Begin(c, u, k) ==
  /\ pc[c] = "idle"
  /\ Goto(c, "member")
  /\ actor' = [actor EXCEPT ![c] = u]
  /\ conv' = [conv EXCEPT ![c] = k]
  /\ begun' = [begun EXCEPT ![c] = now]
  /\ UNCHANGED <<tables, now, sequence>>

(* assertConversationMember: CONVERSATION_NOT_FOUND for anyone else.       *)
CheckMember(c) ==
  /\ pc[c] = "member"
  /\ IF actor[c] \in members[conv[c]]
     THEN Goto(c, "sequence") /\ UNCHANGED <<request, now>>
     ELSE Finish(c)
  /\ UNCHANGED tables

(* REPLY_TARGET_NOT_FOUND, FORWARD_TARGET_NOT_FOUND: the message that this *)
(* one answers or forwards is not there.                                   *)
RefuseReference(c) ==
  /\ pc[c] = "sequence"
  /\ Finish(c)
  /\ UNCHANGED tables

(* net_next_message_sequence: the greatest committed number, plus one.     *)
NextSequence(k) == Max(SequencesOf(k) \cup {0}) + 1

ReadSequence(c) ==
  /\ pc[c] = "sequence"
  /\ NextSequence(conv[c]) <= MaxMessages
  /\ sequence' = [sequence EXCEPT ![c] = NextSequence(conv[c])]
  /\ Goto(c, "insert")
  /\ UNCHANGED <<tables, now, actor, conv, begun>>

(* Another transaction has inserted the same number and not yet committed. *)
MustWait(c) ==
  \E d \in Clients \ {c} :
    pc[d] = "commit" /\ conv[d] = conv[c] /\ sequence[d] = sequence[c]

(* Mutant of Insert: no unique (conversation_id, sequence).                *)
InsertUnchecked(c) ==
  /\ pc[c] = "insert"
  /\ Goto(c, "commit")
  /\ UNCHANGED <<tables, now, request>>

(* Mutant of Insert: waits until the number is free.                       *)
InsertWhenFree(c) ==
  /\ pc[c] = "insert"
  /\ ~MustWait(c) /\ sequence[c] \notin SequencesOf(conv[c])
  /\ Goto(c, "commit")
  /\ UNCHANGED <<tables, now, request>>

(* unique (conversation_id, sequence): a number taken by a committed row   *)
(* fails the request, and its message is not stored.                       *)
Insert(c) ==
  /\ pc[c] = "insert"
  /\ ~MustWait(c)
  /\ IF sequence[c] \in SequencesOf(conv[c])
     THEN Finish(c)
     ELSE Goto(c, "commit") /\ UNCHANGED <<request, now>>
  /\ UNCHANGED tables

(* Mutant of StampOf: the time at which the row is written.                *)
StampAtCommit(c) == now

(* created_at, and the now() of last_message_at: the begin of the          *)
(* transaction.                                                            *)
StampOf(c) == begun[c]

(* The message, last_message_at of its conversation and the audit row.     *)
Commit(c) ==
  /\ pc[c] = "commit"
  /\ messages' = messages \cup {[conv |-> conv[c], sequence |-> sequence[c],
                                 sender |-> actor[c], at |-> begun[c]]}
  /\ lastAt' = [lastAt EXCEPT ![conv[c]] = StampOf(c)]
  /\ Finish(c)
  /\ UNCHANGED <<members, readAt>>

(* An error or a lost connection before COMMIT.                            *)
Rollback(c) ==
  /\ pc[c] # "idle"
  /\ Finish(c)
  /\ UNCHANGED tables

-----------------------------------------------------------------------------
(* markConversationRead: up to now, or up to a given message; a number     *)
(* that no message has clears the mark.                                    *)

MarkRead(u, k) ==
  /\ u \in members[k]
  /\ readAt' = [readAt EXCEPT ![k][u] = now]
  /\ UNCHANGED <<members, messages, lastAt, now, pc, request>>

MarkReadTo(u, k, n) ==
  /\ u \in members[k]
  /\ readAt' = [readAt EXCEPT ![k][u] =
       IF n \in SequencesOf(k)
       THEN (CHOOSE m \in Messages(k) : m.sequence = n).at
       ELSE Never]
  /\ UNCHANGED <<members, messages, lastAt, now, pc, request>>

Tick == now < MaxTime /\ now' = now + 1 /\ UNCHANGED <<tables, pc, request>>

Step(c) == CheckMember(c) \/ ReadSequence(c) \/ Insert(c) \/ Commit(c)

Next ==
  \/ \E u \in Users, invited \in SUBSET Users : CreateConversation(u, invited)
  \/ \E c \in Clients, u \in Users, k \in Conversations : Begin(c, u, k)
  \/ \E c \in Clients : Step(c) \/ RefuseReference(c) \/ Rollback(c)
  \/ \E u \in Users, k \in Conversations :
       MarkRead(u, k) \/ \E n \in 1..MaxMessages : MarkReadTo(u, k, n)
  \/ Tick

Spec == Init /\ [][Next]_vars

(* A transaction that has begun goes on: its queries are answered, and a   *)
(* waiter is woken when the transaction it waits for ends, even if others  *)
(* try the same number again and again. Requests owe nothing.              *)
Fairness == \A c \in Clients : SF_vars(Step(c))
FairSpec == Spec /\ Fairness

-----------------------------------------------------------------------------
(* listConversations: a conversation shows the message with the greatest   *)
(* sequence, and the list is ordered by last_message_at.                   *)
LastMessage(k) == {m \in Messages(k) : \A n \in SequencesOf(k) : n <= m.sequence}

-----------------------------------------------------------------------------
(* Properties                                                              *)

(* Every variable has its type.                                            *)
TypeOK ==
  /\ members \in [Conversations -> SUBSET Users]
  /\ messages \subseteq [conv : Conversations, sequence : Nat \ {0}, sender : Users, at : Nat]
  /\ lastAt \in [Conversations -> Nat \cup {Never}]
  /\ readAt \in [Conversations -> [Users -> Nat \cup {Never}]]
  /\ now \in Nat
  /\ pc \in [Clients -> {"idle", "member", "sequence", "insert", "commit"}]
  /\ actor \in [Clients -> Users \cup {Nobody}]
  /\ conv \in [Clients -> Conversations \cup {0}]
  /\ begun \in [Clients -> Nat] /\ sequence \in [Clients -> Nat]

(* The messages of a conversation are numbered 1, 2, 3, ... with no gap    *)
(* and no number used twice, although the number is read before the row is *)
(* inserted and transactions overlap and roll back.                        *)
SequencesAreContiguous ==
  \A k \in Conversations :
    SequencesOf(k) = 1..Cardinality(Messages(k))

(* What the list of conversations is ordered by belongs to the message it  *)
(* shows: last_message_at is the created_at of the last message in         *)
(* sequence, even when an older transaction commits after a younger one.   *)
ListShowsLastMessage ==
  \A k \in Conversations :
    /\ lastAt[k] = Never <=> LastMessage(k) = {}
    /\ \A m \in LastMessage(k) : lastAt[k] = m.at

(* A message is stored or refused: the loser of a race for a number does   *)
(* not wait for ever.                                                      *)
EveryPostIsAnswered ==
  \A c \in Clients : pc[c] = "insert" ~> pc[c] = "idle"
=============================================================================
