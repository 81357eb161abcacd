---------------------------- MODULE Notifications ----------------------------
(***************************************************************************)
(* The notifications of one user: the messages import-writer and           *)
(* import-job-fail-handler publish, their delivery by SNS to the API's     *)
(* callback, which keeps a record, pushes it to the browser and mails it,  *)
(* and the list a browser keeps of them.  SNS posts a message again unless *)
(* it is answered in time, so that invocations of the callback overlap.    *)
(* Only signed messages of the topic are delivered here; the local mode,   *)
(* which posts without SNS, the test endpoint, and the wording of a        *)
(* notification are left out.                                              *)
(***************************************************************************)
EXTENDS Naturals, SequencesExt

CONSTANTS
  Message,     \* SNS message ids
  Subject,     \* Subject[m]: the import job and the type (success or failure)
  Past,        \* the messages recorded and mailed before
  Handler,     \* the invocations of the callback that may be in progress
  MaxTries,    \* deliveries of a message before SNS parks it
  MaxMarks     \* how often the user marks something read (bounds a run)

ASSUME NotificationsAssumption ==
  /\ Past \subseteq Message /\ IsFiniteSet(Past)
  /\ DOMAIN Subject = Message
  /\ MaxTries \in Nat /\ MaxMarks \in Nat

VARIABLES
  topic,       \* topic[m]: where the message is
  tries,       \* how often it was posted
  handler,     \* the invocations
  rows,        \* the notification records, oldest first: the id is the index
  mails,       \* mails[m]: the mails sent for m
  pushes,      \* the records whose push is on its way
  shown,       \* the browser's list, newest first, as the query cache has it
  fetch,       \* the last request for the list: in flight, or how it ended
  marks,       \* the requests to mark as read: in flight, or written and lost
  marked       \* how many there have been

deliveryVars == <<topic, tries, handler, mails>>
browserVars  == <<shown, fetch, marks, marked>>
vars == <<deliveryVars, rows, pushes, browserVars>>

IdleHandler == [pc |-> "idle"]
NoFetch == [state |-> "none"]
Failed  == [state |-> "failed"]
Asked   == [state |-> "asked", retried |-> FALSE]
Retried == [state |-> "asked", retried |-> TRUE]
All == 0

Record(m) == [msg |-> m, subject |-> Subject[m], read |-> FALSE]

Init ==
  /\ topic = [m \in Message |-> IF m \in Past THEN "answered" ELSE "unsent"]
  /\ tries = [m \in Message |-> 0]
  /\ handler = [h \in Handler |-> IdleHandler]
  /\ mails = [m \in Message |-> IF m \in Past THEN 1 ELSE 0]
  /\ rows = SetToSeq({Record(m) : m \in Past}) /\ pushes = {}
  /\ shown = <<>> /\ fetch = Asked /\ marks = {} /\ marked = 0

-----------------------------------------------------------------------------
(* Delivery. *)

Publish(m) ==
  /\ topic[m] = "unsent"
  /\ topic' = [topic EXCEPT ![m] = "topic"]
  /\ UNCHANGED <<tries, handler, mails, rows, pushes, browserVars>>

Deliver(m, h) ==
  /\ topic[m] = "topic" /\ tries[m] < MaxTries
  /\ handler[h] = IdleHandler
  /\ tries' = [tries EXCEPT ![m] = @ + 1]
  /\ handler' = [handler EXCEPT ![h] = [pc |-> "message", msg |-> m]]
  /\ UNCHANGED <<topic, mails, rows, pushes, browserVars>>

AtWork(m) == {h \in Handler : handler[h] # IdleHandler /\ handler[h].msg = m}

\* After the last attempt the message goes to the delivery DLQ.
Park(m) ==
  /\ topic[m] = "topic" /\ tries[m] = MaxTries /\ AtWork(m) = {}
  /\ topic' = [topic EXCEPT ![m] = "parked"]
  /\ UNCHANGED <<tries, handler, mails, rows, pushes, browserVars>>

Recorded(m) == \E i \in DOMAIN rows : rows[i].msg = m

\* Mutation: any notification of the job will do.
DuplicateAnyType(m) == \E i \in DOMAIN rows : rows[i].subject[1] = Subject[m][1]

\* findFirst by type and job.
Duplicate(m) == \E i \in DOMAIN rows : rows[i].subject = Subject[m]

Answers(h) ==
  /\ topic' = [topic EXCEPT ![handler[h].msg] = IF @ = "topic" THEN "answered" ELSE @]
  /\ handler' = [handler EXCEPT ![h] = IdleHandler]

Continues(h, pc) ==
  /\ handler' = [handler EXCEPT ![h].pc = pc]
  /\ UNCHANGED topic

CheckMessage(h) ==
  /\ handler[h].pc = "message"
  /\ IF Recorded(handler[h].msg) THEN Answers(h) ELSE Continues(h, "job")
  /\ UNCHANGED <<tries, mails, rows, pushes, browserVars>>

CheckJob(h) ==
  /\ handler[h].pc = "job"
  /\ IF Duplicate(handler[h].msg) THEN Answers(h) ELSE Continues(h, "create")
  /\ UNCHANGED <<tries, mails, rows, pushes, browserVars>>

\* Mutation: an invocation whose insert conflicts goes on to mail.
ConflictMails(h) == Continues(h, "mail")

\* The unique message id: the record is there, and the other invocation mails.
Conflict(h) == Answers(h)

\* create, and the push that is not waited for.
Create(h) ==
  LET m == handler[h].msg IN
  /\ handler[h].pc = "create"
  /\ IF Recorded(m)
     THEN Conflict(h) /\ UNCHANGED <<rows, pushes>>
     ELSE /\ rows' = Append(rows, Record(m))
          /\ pushes' = pushes \cup {Len(rows) + 1}
          /\ Continues(h, "mail")
  /\ UNCHANGED <<tries, mails, browserVars>>

\* The address is looked up and the mail sent, which is not waited for.
Mail(h) ==
  /\ handler[h].pc = "mail"
  /\ mails' = [mails EXCEPT ![handler[h].msg] = @ + 1]
  /\ Answers(h)
  /\ UNCHANGED <<tries, rows, pushes, browserVars>>

\* A statement fails or the function is cut short: SNS gets no answer.  A mail
\* that SES refuses is not told from one that was not sent.
HandlerFails(h) ==
  /\ handler[h] # IdleHandler
  /\ handler' = [handler EXCEPT ![h] = IdleHandler]
  /\ UNCHANGED <<topic, tries, mails, rows, pushes, browserVars>>

-----------------------------------------------------------------------------
(* The browser: NotificationBell and the notifications page share one query. *)

Shows(i) == \E n \in DOMAIN shown : shown[n].id = i

ShowsUnread(i) == \E n \in DOMAIN shown : shown[n].id = i /\ ~shown[n].read

\* Mutation: a pushed record is added whether or not it is there.
AddedAlways(i) == <<[id |-> i, read |-> FALSE]>> \o shown

Added(i) == IF Shows(i) THEN shown ELSE <<[id |-> i, read |-> FALSE]>> \o shown

\* Pusher delivers in any order, or not at all: nobody may be subscribed.
PushEnds(i) ==
  /\ i \in pushes
  /\ pushes' = pushes \ {i}
  /\ shown' \in {shown, Added(i)}
  /\ UNCHANGED <<deliveryVars, rows, fetch, marks, marked>>

\* The marks that are in flight.  One whose answer was lost is remembered
\* until the list is asked for again: nothing has told the browser of it.
InFlight == {q \in marks : q.state # "lost"}

\* A component mounts, the window gets the focus back, or the network does.
FetchStarts ==
  /\ fetch \in {NoFetch, Failed}
  /\ fetch' = Asked /\ marks' = InFlight
  /\ UNCHANGED <<deliveryVars, rows, pushes, shown, marked>>

Listing == Reverse([i \in DOMAIN rows |-> [id |-> i, read |-> rows[i].read]])

FetchReads ==
  /\ fetch.state = "asked"
  /\ fetch' = [state |-> "answer", retried |-> fetch.retried, list |-> Listing]
  /\ UNCHANGED <<deliveryVars, rows, pushes, shown, marks, marked>>

\* The answer replaces the list, records pushed since it was read included.
FetchLands ==
  /\ fetch.state = "answer"
  /\ shown' = fetch.list
  /\ fetch' = NoFetch
  /\ UNCHANGED <<deliveryVars, rows, pushes, marks, marked>>

\* The request or its answer gets lost.  It is sent once more; when that fails
\* too the list stays as it was.
FetchFails ==
  /\ fetch.state \in {"asked", "answer"}
  /\ fetch' = IF fetch.retried THEN Failed ELSE Retried
  /\ UNCHANGED <<deliveryVars, rows, pushes, shown, marks, marked>>

\* A click on a record shown as unread, or on the button that is there while
\* the list has one and no such request is under way.
Offered(i) ==
  IF i = All THEN /\ \E j \in DOMAIN rows : ShowsUnread(j)
                  /\ \A q \in InFlight : q.id # All
  ELSE ShowsUnread(i)

MarkStarts(i) ==
  /\ Offered(i) /\ marked < MaxMarks
  /\ marks' = marks \cup {[id |-> i, state |-> "asked"]}
  /\ marked' = marked + 1
  /\ UNCHANGED <<deliveryVars, rows, pushes, shown, fetch>>

\* markAsRead, markAllAsRead.
Read(q) ==
  [j \in DOMAIN rows |-> [rows[j] EXCEPT !.read = @ \/ q.id \in {All, j}]]

MarkWrites(q) ==
  /\ q \in marks /\ q.state = "asked"
  /\ rows' = Read(q)
  /\ marks' = (marks \ {q}) \cup {[q EXCEPT !.state = "answer"]}
  /\ UNCHANGED <<deliveryVars, pushes, shown, fetch, marked>>

\* Refused or lost before it is carried out, or the answer is lost: then
\* onSuccess does not run.
MarkFails(q) ==
  /\ \/ q \in InFlight /\ q.state = "asked" /\ marks' = marks \ {q}
     \/ q \in InFlight /\ q.state = "answer"
        /\ marks' = (marks \ {q}) \cup {[q EXCEPT !.state = "lost"]}
  /\ UNCHANGED <<deliveryVars, rows, pushes, shown, fetch, marked>>

\* Mutation: a request that is in flight is taken for the new one.
InvalidatedJoins == IF fetch.state \in {"asked", "answer"} THEN fetch ELSE Asked

\* Mutation: nothing is asked for again.
NotInvalidated == fetch

\* invalidateQueries: a request in flight is dropped and a new one sent.
Invalidated == Asked

MarkAnswers(q) ==
  /\ q \in marks /\ q.state = "answer"
  /\ marks' = InFlight \ {q}
  /\ fetch' = Invalidated
  /\ UNCHANGED <<deliveryVars, rows, pushes, shown, marked>>

-----------------------------------------------------------------------------
Proceeds(h) ==
  /\ handler[h] # IdleHandler
  /\ CheckMessage(h) \/ CheckJob(h) \/ Create(h) \/ Mail(h)

Posts(m) == Park(m) \/ \E h \in Handler : Deliver(m, h)

Fetches == FetchReads \/ FetchLands \/ FetchFails

MarkProceeds(q) == MarkWrites(q) \/ MarkAnswers(q)

Next ==
  \/ \E m \in Message : Publish(m) \/ Posts(m)
  \/ \E h \in Handler : Proceeds(h) \/ HandlerFails(h)
  \/ \E i \in pushes : PushEnds(i)
  \/ FetchStarts \/ Fetches
  \/ \E i \in DOMAIN rows \cup {All} : MarkStarts(i)
  \/ \E q \in marks : MarkProceeds(q) \/ MarkFails(q)

Spec == Init /\ [][Next]_vars

\* SNS posts until it gets an answer or parks the message, an invocation and
\* the browser's requests come to an end, an error or a loss included.  Nobody
\* has to publish, click or look at the page, and a push may get lost.
FairSpec ==
  /\ Spec
  /\ \A m \in Message : SF_vars(Posts(m))
  /\ \A h \in Handler : WF_vars(Proceeds(h))
  /\ WF_vars(Fetches)
  /\ WF_vars(\E q \in marks : MarkProceeds(q))

-----------------------------------------------------------------------------
(* What must hold. *)

Entry == [id : Nat, read : BOOLEAN]

TypeOK ==
  /\ topic \in [Message -> {"unsent", "topic", "answered", "parked"}]
  /\ tries \in [Message -> 0 .. MaxTries]
  /\ handler \in [Handler -> {IdleHandler} \cup
                   [pc : {"message", "job", "create", "mail"}, msg : Message]]
  /\ rows \in Seq([msg : Message, subject : Range(Subject), read : BOOLEAN])
  /\ mails \in [Message -> Nat]
  /\ pushes \subseteq DOMAIN rows
  /\ shown \in Seq(Entry)
  /\ fetch \in {NoFetch, Failed, Asked, Retried} \cup
                [state : {"answer"}, retried : BOOLEAN, list : Seq(Entry)]
  /\ marks \subseteq [id : Nat, state : {"asked", "answer", "lost"}]
  /\ marked \in 0 .. MaxMarks

\* However often a message is posted, and however its invocations overlap or
\* end, it is recorded and mailed at most once ("Double-Delivery
\* Deduplication Check", and the unique message id behind it).
OneMail ==
  \A m \in Message :
    mails[m] <= 1 /\ \A i, j \in DOMAIN rows : rows[i].msg = m /\ rows[j].msg = m => i = j

\* A published message ends as a record of its job and type, its own or an
\* earlier one, or in the delivery DLQ: in particular the success of a replay
\* is recorded although the job's failure was.
NotifiedOrParked ==
  \A m \in Message :
    topic[m] = "topic" ~> \/ topic[m] = "parked"
                          \/ \E i \in DOMAIN rows : rows[i].subject = Subject[m]

\* The browser never lists a record twice, in whatever order pushes and the
\* answers to its own requests arrive.
NoDuplicateShown ==
  \A n, k \in DOMAIN shown : shown[n].id = shown[k].id => n = k

\* A mark that covers record i is written and the browser does not know: its
\* answer is on its way, or was lost and the list not asked for since.
Untold(i) == \E q \in marks : q.state # "asked" /\ q.id \in {All, i}

\* When the last request for the list was answered and none is in flight, the
\* list shows nothing as unread that is read, unless the mark's own answer is
\* still out: whatever the order of marks, lists read before them and pushes,
\* no stale answer lands last.
ReadIsShown ==
  fetch = NoFetch => \A i \in DOMAIN rows : rows[i].read /\ ShowsUnread(i) => Untold(i)

\* What the user has marked as read, one record or all of them, is shown as
\* read before long, although requests answered before the mark are in flight
\* - unless the mark's answer is lost, or the request for the list that it
\* causes fails with its one retry: the list then stays as it was.
MarkedIsShown ==
  \A i \in 1 .. Cardinality(Message) : \A k \in {i, All} :
    (/\ [id |-> k, state |-> "answer"] \in marks
     /\ i \in DOMAIN rows /\ rows[i].read)
    ~> \/ ~ShowsUnread(i)
       \/ fetch = Failed
       \/ [id |-> k, state |-> "lost"] \in marks

=============================================================================
