------------------------ MODULE NotificationsProofs ------------------------
(***************************************************************************)
(* Theorems about Notifications, for any messages, any number of           *)
(* invocations that overlap, and any number of deliveries and marks.       *)
(***************************************************************************)
EXTENDS Notifications, FiniteSetTheorems, SequenceTheorems, TLAPS

USE NotificationsAssumption DEF NotificationsAssumption

Rows == [msg : Message, subject : Range(Subject), read : BOOLEAN]

\* A message has one record at most: the unique column.
OneRecord == \A i, j \in DOMAIN rows : rows[i].msg = rows[j].msg => i = j

\* Of the invocations for a message one at most is about to mail, and only
\* when it has made the record and nobody has mailed.
OneMailer ==
  \A g, h \in Handler :
    handler[g].pc = "mail" =>
      /\ Recorded(handler[g].msg) /\ mails[handler[g].msg] = 0
      /\ handler[h].pc = "mail" /\ handler[h].msg = handler[g].msg => g = h

\* Nothing is mailed that has no record.
MailedRecorded == \A m \in Message : mails[m] \in {0, 1} /\ (mails[m] = 1 => Recorded(m))

Once == OneRecord /\ OneMailer /\ MailedRecorded

Distinct(list) == \A n, k \in DOMAIN list : list[n].id = list[k].id => n = k

\* Neither the list nor the answer that will replace it has a record twice.
Listed == TypeOK /\ Distinct(shown) /\ (fetch.state = "answer" => Distinct(fetch.list))

-----------------------------------------------------------------------------
(* The records at the start. *)

\* SetToSeq lists a finite set: each of its elements, and none twice.
LEMMA SetToSeqLists ==
  ASSUME NEW S, IsFiniteSet(S)
  PROVE  /\ SetToSeq(S) \in Seq(S)
         /\ \A a, b \in DOMAIN SetToSeq(S) : SetToSeq(S)[a] = SetToSeq(S)[b] => a = b
         /\ \A x \in S : \E a \in DOMAIN SetToSeq(S) : SetToSeq(S)[a] = x
<1> DEFINE n == Cardinality(S)
           f == SetToSeq(S)
<1>1. n \in Nat /\ ExistsBijection(1 .. n, S)
  BY FS_CardinalityType
<1>2. \E g \in [1 .. n -> S] : IsInjective(g)
  BY <1>1 DEF ExistsBijection, Bijection, Injection
<1>3. f \in [1 .. n -> S] /\ IsInjective(f)
  BY <1>2 DEF SetToSeq
<1>4. f \in Injection(1 .. n, S)
  BY <1>3 DEF Injection
<1>5. Cardinality(1 .. n) = n
  BY <1>1, FS_Interval
<1>6. f \in Surjection(1 .. n, S)
  BY <1>4, <1>5, FS_Injection
<1> QED
  BY <1>1, <1>3, <1>6 DEF Surjection, IsInjective

LEMMA PastRecords == IsFiniteSet({Record(m) : m \in Past})
<1> DEFINE S == {Record(m) : m \in Past}
           f == [m \in Past |-> Record(m)]
<1>1. f \in Surjection(Past, S)
  BY DEF Surjection
<1> QED
  BY <1>1, FS_Surjection

-----------------------------------------------------------------------------
(* Type correctness. *)

LEMMA RecordType == \A m \in Message : Record(m) \in Rows
BY DEF Record, Range, Rows

\* A record is of a message, and marking it leaves it one.
LEMMA RowsType ==
  ASSUME TypeOK
  PROVE  /\ Len(rows) \in Nat /\ DOMAIN rows = 1 .. Len(rows)
         /\ \A i \in DOMAIN rows :
              /\ rows[i] \in Rows /\ rows[i].msg \in Message /\ rows[i].read \in BOOLEAN
              /\ \A b \in BOOLEAN : [rows[i] EXCEPT !.read = b] \in Rows
<1>1. rows \in Seq(Rows)
  BY DEF TypeOK, Rows
<1>2. Len(rows) \in Nat /\ DOMAIN rows = 1 .. Len(rows) /\ \A i \in DOMAIN rows : rows[i] \in Rows
  BY <1>1
<1>3. \A r \in Rows :
        /\ r.msg \in Message /\ r.read \in BOOLEAN
        /\ \A b \in BOOLEAN : [r EXCEPT !.read = b] \in Rows
  BY DEF Rows
<1> QED
  BY <1>2, <1>3

LEMMA InitTyped == Init => TypeOK
<1> SUFFICES ASSUME Init PROVE TypeOK
  OBVIOUS
<1> DEFINE S == {Record(m) : m \in Past}
<1>1. S \subseteq Rows
  BY RecordType
<1>2. rows \in Seq(S)
  BY PastRecords, SetToSeqLists DEF Init
<1>3. rows \in Seq(Rows)
  BY <1>1, <1>2, SeqMonotonic
<1>4. 0 \in Nat /\ 1 \in Nat /\ 0 \in 0 .. MaxTries /\ 0 \in 0 .. MaxMarks
  OBVIOUS
<1>5. shown \in Seq(Entry)
  BY DEF Init
<1>6. topic \in [Message -> {"unsent", "topic", "answered", "parked"}]
  BY DEF Init
<1>7. /\ fetch \in {NoFetch, Failed, Asked, Retried} \cup
                     [state : {"answer"}, retried : BOOLEAN, list : Seq(Entry)]
      /\ marks \subseteq [id : Nat, state : {"asked", "answer", "lost"}]
      /\ pushes \subseteq DOMAIN rows
  BY DEF Init
<1>8. /\ tries \in [Message -> 0 .. MaxTries] /\ mails \in [Message -> Nat]
      /\ marked \in 0 .. MaxMarks
  BY <1>4 DEF Init
<1>9. handler \in [Handler -> {IdleHandler} \cup
                   [pc : {"message", "job", "create", "mail"}, msg : Message]]
  BY DEF Init
<1> QED
  BY <1>3, <1>5, <1>6, <1>7, <1>8, <1>9 DEF TypeOK, Rows

\* What the invocations, the records and the requests are made of.
LEMMA HandlerType ==
  ASSUME TypeOK, NEW h \in Handler, handler[h] # IdleHandler
  PROVE  /\ handler[h] \in [pc : {"message", "job", "create", "mail"}, msg : Message]
         /\ handler[h].msg \in Message
BY DEF TypeOK

LEMMA DeliveryTyped ==
  ASSUME TypeOK, NEW m \in Message, Publish(m) \/ Posts(m)
  PROVE  TypeOK'
<1> USE DEF TypeOK, Rows, browserVars
<1>1. CASE Publish(m)
  BY <1>1 DEF Publish
<1>2. ASSUME NEW h \in Handler, Deliver(m, h) PROVE TypeOK'
  BY <1>2 DEF Deliver
<1>3. CASE Park(m)
  BY <1>3 DEF Park
<1> QED
  BY <1>1, <1>2, <1>3 DEF Posts

LEMMA HandlerTyped ==
  ASSUME TypeOK, NEW h \in Handler, Proceeds(h) \/ HandlerFails(h)
  PROVE  TypeOK'
<1>1. handler[h] # IdleHandler
  BY DEF Proceeds, HandlerFails
<1>2. /\ handler[h] \in [pc : {"message", "job", "create", "mail"}, msg : Message]
      /\ handler[h].msg \in Message
  BY <1>1, HandlerType
<1>3. Answers(h) => /\ topic' \in [Message -> {"unsent", "topic", "answered", "parked"}]
                    /\ handler' \in [Handler -> {IdleHandler} \cup
                         [pc : {"message", "job", "create", "mail"}, msg : Message]]
  BY <1>2 DEF TypeOK, Answers
<1>4. ASSUME NEW pc \in {"message", "job", "create", "mail"}, Continues(h, pc)
      PROVE  /\ topic' = topic
             /\ handler' \in [Handler -> {IdleHandler} \cup
                  [pc : {"message", "job", "create", "mail"}, msg : Message]]
  BY <1>2, <1>4 DEF TypeOK, Continues
<1> USE DEF TypeOK, Rows, browserVars
<1>5. CASE CheckMessage(h)
  BY <1>3, <1>4, <1>5 DEF CheckMessage
<1>6. CASE CheckJob(h)
  BY <1>3, <1>4, <1>6 DEF CheckJob
<1>7. CASE Create(h)
  <2>1. CASE Recorded(handler[h].msg)
    BY <1>3, <1>7, <2>1 DEF Create, Conflict
  <2>2. CASE ~Recorded(handler[h].msg)
    <3>1. Record(handler[h].msg) \in Rows
      BY <1>2, RecordType
    <3>2. /\ rows' \in Seq(Rows)
          /\ DOMAIN rows' = 1 .. Len(rows) + 1 /\ DOMAIN rows = 1 .. Len(rows)
          /\ Len(rows) \in Nat
      <4> HIDE DEF Rows
      <4>1. rows' = Append(rows, Record(handler[h].msg))
        BY <1>7, <2>2 DEF Create
      <4>2. rows \in Seq(Rows)
        BY DEF Rows
      <4> QED
        BY <3>1, <4>1, <4>2, AppendProperties, LenProperties
    <3>3. pushes' \subseteq DOMAIN rows'
      BY <1>7, <2>2, <3>2 DEF Create
    <3>4. Continues(h, "mail") /\ UNCHANGED <<tries, mails, browserVars>>
      BY <1>7, <2>2 DEF Create
    <3> QED
      BY <1>4, <3>2, <3>3, <3>4
  <2> QED
    BY <2>1, <2>2
<1>8. CASE Mail(h)
  BY <1>2, <1>3, <1>8 DEF Mail
<1>9. CASE HandlerFails(h)
  BY <1>9 DEF HandlerFails
<1> QED
  BY <1>5, <1>6, <1>7, <1>8, <1>9 DEF Proceeds

LEMMA ReverseType ==
  ASSUME NEW S, NEW s \in Seq(S)
  PROVE  Reverse(s) \in Seq(S) /\ DOMAIN Reverse(s) = DOMAIN s
BY DEF Reverse

LEMMA BrowserTyped ==
  ASSUME TypeOK,
         \/ \E i \in pushes : PushEnds(i)
         \/ FetchStarts \/ Fetches
         \/ \E i \in DOMAIN rows \cup {All} : MarkStarts(i)
         \/ \E q \in marks : MarkProceeds(q) \/ MarkFails(q)
  PROVE  TypeOK'
<1> USE DEF TypeOK, Rows, deliveryVars, Entry
<1>1. ASSUME NEW i \in pushes, PushEnds(i) PROVE TypeOK'
  <2>1. i \in Nat
    OBVIOUS
  <2>2. <<[id |-> i, read |-> FALSE]>> \o shown \in Seq(Entry)
    BY <2>1
  <2> QED
    BY <1>1, <2>2 DEF PushEnds, Added
<1>2. CASE FetchStarts
  BY <1>2 DEF FetchStarts, Asked, InFlight
<1>3. CASE FetchReads
  <2> DEFINE L == [i \in DOMAIN rows |-> [id |-> i, read |-> rows[i].read]]
  <2>1. Listing \in Seq(Entry)
    <3>1. DOMAIN rows = 1 .. Len(rows) /\ Len(rows) \in Nat
      OBVIOUS
    <3>2. \A i \in 1 .. Len(rows) : [id |-> i, read |-> rows[i].read] \in Entry
      BY RowsType, SMTT(30) DEF Entry
    <3>3. L \in Seq(Entry)
      BY <3>1, <3>2
    <3> QED
      BY <3>3, ReverseType DEF Listing
  <2>2. fetch.retried \in BOOLEAN
    <3>1. fetch.state = "asked"
      BY <1>3 DEF FetchReads
    <3>2. fetch \notin {NoFetch, Failed}
      BY <3>1 DEF NoFetch, Failed
    <3>3. Asked.retried \in BOOLEAN /\ Retried.retried \in BOOLEAN
      BY DEF Asked, Retried
    <3> QED
      BY <3>2, <3>3
  <2>3. [state |-> "answer", retried |-> fetch.retried, list |-> Listing]
          \in [state : {"answer"}, retried : BOOLEAN, list : Seq(Entry)]
    BY <2>1, <2>2
  <2> QED
    BY <1>3, <2>3 DEF FetchReads
<1>4. CASE FetchLands
  <2>1. fetch.list \in Seq(Entry)
    BY <1>4 DEF FetchLands, NoFetch, Failed, Asked, Retried
  <2> QED
    BY <1>4, <2>1 DEF FetchLands
<1>5. ASSUME NEW i \in DOMAIN rows \cup {All}, MarkStarts(i) PROVE TypeOK'
  BY <1>5 DEF MarkStarts, All
<1>6. ASSUME NEW q \in marks, MarkWrites(q) PROVE TypeOK'
  <2>1. Read(q) \in Seq(Rows)
        /\ DOMAIN Read(q) = DOMAIN rows
    <3>1. DOMAIN rows = 1 .. Len(rows) /\ Len(rows) \in Nat
      BY RowsType
    <3>2. \A j \in 1 .. Len(rows) : (rows[j].read \/ q.id \in {All, j}) \in BOOLEAN
      BY RowsType
    <3>3. \A j \in 1 .. Len(rows) :
            [rows[j] EXCEPT !.read = rows[j].read \/ q.id \in {All, j}] \in Rows
      BY <3>1, <3>2, RowsType, Zenon
    <3> QED
      BY <3>1, <3>3, SMTT(30) DEF Read
  <2> QED
    BY <1>6, <2>1 DEF MarkWrites
<1>7. ASSUME NEW q \in marks, MarkFails(q) PROVE TypeOK'
  BY <1>7 DEF MarkFails
<1>8. ASSUME NEW q \in marks, MarkAnswers(q) PROVE TypeOK'
  BY <1>8 DEF MarkAnswers, Invalidated, InFlight
<1>9. CASE FetchFails
  BY <1>9 DEF FetchFails
<1> QED
  BY <1>1, <1>2, <1>3, <1>4, <1>5, <1>6, <1>7, <1>8, <1>9 DEF Fetches, MarkProceeds

\* Every reachable state is well typed: the records are a list, a push is of a
\* record, an invocation is about a message, and no request for the list or to
\* mark is anything but asked or answered.
THEOREM TypeCorrect == Spec => []TypeOK
<1>1. TypeOK /\ [Next]_vars => TypeOK'
  <2> SUFFICES ASSUME TypeOK, [Next]_vars PROVE TypeOK'
    OBVIOUS
  <2>1. CASE Next
    BY <2>1, DeliveryTyped, HandlerTyped, BrowserTyped DEF Next
  <2>2. CASE UNCHANGED vars
    BY <2>2 DEF TypeOK, vars, deliveryVars, browserVars
  <2> QED
    BY <2>1, <2>2
<1> QED
  BY InitTyped, <1>1, PTL DEF Spec

-----------------------------------------------------------------------------
(* One record and one mail. *)

LEMMA InitOnce == Init => Once
<1> SUFFICES ASSUME Init PROVE Once
  OBVIOUS
<1> DEFINE S == {Record(m) : m \in Past}
<1>1. rows = SetToSeq(S) /\ IsFiniteSet(S)
  BY PastRecords DEF Init
<1>2. /\ rows \in Seq(S)
      /\ \A a, b \in DOMAIN rows : rows[a] = rows[b] => a = b
      /\ \A x \in S : \E a \in DOMAIN rows : rows[a] = x
  BY <1>1, SetToSeqLists
<1>3. \A a \in DOMAIN rows : \E m \in Past : rows[a] = Record(m)
  BY <1>2
<1>4. \A m : Record(m).msg = m
  BY DEF Record
<1>5. OneRecord
  BY <1>2, <1>3, <1>4 DEF OneRecord
<1>6. \A m \in Past : Recorded(m)
  <2> SUFFICES ASSUME NEW m \in Past PROVE \E a \in DOMAIN rows : rows[a].msg = m
    BY DEF Recorded
  <2>1. PICK a \in DOMAIN rows : rows[a] = Record(m)
    BY <1>2
  <2> QED
    BY <1>4, <2>1
<1>7. MailedRecorded
  BY <1>6 DEF MailedRecorded, Init
<1>8. OneMailer
  BY DEF OneMailer, Init, IdleHandler
<1> QED
  BY <1>5, <1>7, <1>8 DEF Once

\* A step that neither records nor mails, and lets no invocation on to mail.
LEMMA OnceKept ==
  ASSUME Once, UNCHANGED <<rows, mails>>,
         \A h \in Handler : handler'[h].pc = "mail" => handler'[h] = handler[h]
  PROVE  Once'
BY DEF Once, OneRecord, OneMailer, MailedRecorded, Recorded

\* Marking changes no record's message.
LEMMA OnceRead ==
  ASSUME TypeOK, Once, UNCHANGED <<handler, mails>>, DOMAIN rows' = DOMAIN rows,
         \A j \in DOMAIN rows : rows'[j].msg = rows[j].msg
  PROVE  Once'
BY DEF Once, OneRecord, OneMailer, MailedRecorded, Recorded

LEMMA CreateOnce ==
  ASSUME TypeOK, Once, NEW h \in Handler, Create(h)
  PROVE  Once'
<1> DEFINE m == handler[h].msg
<1>1. handler[h].pc = "create" /\ handler[h] # IdleHandler
  BY DEF Create, IdleHandler
<1>2. handler \in [Handler -> {IdleHandler} \cup [pc : {"message", "job", "create", "mail"}, msg : Message]]
  BY DEF TypeOK
<1>3. m \in Message
  BY <1>1, HandlerType
<1>4. CASE Recorded(m)
  <2>1. UNCHANGED <<rows, mails>> /\ handler' = [handler EXCEPT ![h] = IdleHandler]
    BY <1>4 DEF Create, Conflict, Answers
  <2> QED
    BY <1>2, <2>1, OnceKept DEF IdleHandler
<1>5. CASE ~Recorded(m)
  <2>1. /\ rows' = Append(rows, Record(m)) /\ UNCHANGED mails
        /\ handler' = [handler EXCEPT ![h].pc = "mail"]
    BY <1>5 DEF Create, Continues
  <2>2. rows \in Seq(Rows) /\ Len(rows) \in Nat /\ DOMAIN rows = 1 .. Len(rows)
    BY RowsType DEF TypeOK, Rows
  <2>3. /\ DOMAIN rows' = 1 .. Len(rows) + 1
        /\ \A j \in DOMAIN rows : rows'[j] = rows[j]
        /\ rows'[Len(rows) + 1].msg = m
    <3>1. Record(m) \in Rows /\ Record(m).msg = m
      BY <1>3, RecordType DEF Record
    <3> QED
      BY <2>1, <2>2, <3>1, AppendProperties, LenProperties
  <2>4. \A n : Recorded(n)' <=> Recorded(n) \/ n = m
    BY <2>2, <2>3 DEF Recorded
  <2>5. OneRecord'
    BY <1>5, <2>2, <2>3 DEF Once, OneRecord, Recorded
  <2>6. MailedRecorded'
    BY <2>1, <2>4 DEF Once, MailedRecorded
  <2>7. mails[m] = 0
    BY <1>3, <1>5 DEF Once, MailedRecorded
  <2>8. \A g \in Handler : handler[g].pc = "mail" => handler[g].msg # m
    BY <1>5 DEF Once, OneMailer
  <2>9. \A g \in Handler : /\ handler'[g].msg = handler[g].msg
                            /\ handler'[g].pc = "mail" <=> g = h \/ handler[g].pc = "mail"
    BY <1>1, <1>2, <2>1
  <2>10. OneMailer'
    BY <2>1, <2>4, <2>7, <2>8, <2>9 DEF Once, OneMailer
  <2> QED
    BY <2>5, <2>6, <2>10 DEF Once
<1> QED
  BY <1>4, <1>5

LEMMA MailOnce ==
  ASSUME TypeOK, Once, NEW h \in Handler, Mail(h)
  PROVE  Once'
<1> DEFINE m == handler[h].msg
<1>1. handler[h].pc = "mail" /\ handler[h] # IdleHandler
  BY DEF Mail, IdleHandler
<1>2. m \in Message
  BY <1>1, HandlerType
<1>3. Recorded(m) /\ mails[m] = 0 /\ \A g \in Handler :
        handler[g].pc = "mail" /\ handler[g].msg = m => g = h
  BY <1>1 DEF Once, OneMailer
<1>4. rows' = rows /\ mails' = [mails EXCEPT ![m] = 1] /\ mails \in [Message -> Nat]
  BY <1>3 DEF Mail, TypeOK
<1>5. handler' = [handler EXCEPT ![h] = IdleHandler] /\ DOMAIN handler = Handler
  BY DEF Mail, Answers, TypeOK
<1>6. \A g \in Handler : handler'[g].pc = "mail" => g # h /\ handler'[g] = handler[g]
  BY <1>5 DEF IdleHandler
<1>7. \A n : Recorded(n)' <=> Recorded(n)
  BY <1>4 DEF Recorded
<1>8. OneMailer'
  BY <1>3, <1>4, <1>6, <1>7 DEF Once, OneMailer
<1>9. MailedRecorded' /\ OneRecord'
  BY <1>2, <1>3, <1>4, <1>7 DEF Once, MailedRecorded, OneRecord
<1> QED
  BY <1>8, <1>9 DEF Once

LEMMA StepOnce == TypeOK /\ Once /\ [Next]_vars => Once'
<1> SUFFICES ASSUME TypeOK, Once, [Next]_vars PROVE Once'
  OBVIOUS
<1>1. handler \in [Handler -> {IdleHandler} \cup [pc : {"message", "job", "create", "mail"}, msg : Message]]
  BY DEF TypeOK
<1>2. ASSUME NEW m \in Message, Publish(m) \/ Park(m) PROVE Once'
  BY <1>2, OnceKept DEF Publish, Park
<1>3. ASSUME NEW m \in Message, NEW h \in Handler, Deliver(m, h) PROVE Once'
  <2>1. UNCHANGED <<rows, mails>>
        /\ handler' = [handler EXCEPT ![h] = [pc |-> "message", msg |-> m]]
    BY <1>3 DEF Deliver
  <2> QED
    BY <1>1, <2>1, OnceKept
<1>4. ASSUME NEW h \in Handler, CheckMessage(h) \/ CheckJob(h) \/ HandlerFails(h) PROVE Once'
  <2>1. /\ UNCHANGED <<rows, mails>>
        /\ \/ handler' = [handler EXCEPT ![h] = IdleHandler]
           \/ \E pc \in {"job", "create"} : handler' = [handler EXCEPT ![h].pc = pc]
    BY <1>4 DEF CheckMessage, CheckJob, HandlerFails, Answers, Continues
  <2>2. handler[h] # IdleHandler
    BY <1>4 DEF CheckMessage, CheckJob, HandlerFails, IdleHandler
  <2>3. handler[h] \in [pc : {"message", "job", "create", "mail"}, msg : Message]
    BY <2>2, HandlerType
  <2>4. \A g \in Handler : handler'[g].pc = "mail" => handler'[g] = handler[g]
    BY <1>1, <2>1, <2>3 DEF IdleHandler
  <2> QED
    BY <2>1, <2>4, OnceKept
<1>5. ASSUME NEW q \in marks, MarkWrites(q) PROVE Once'
  <2>1. UNCHANGED <<handler, mails>> /\ rows' = Read(q)
    BY <1>5 DEF MarkWrites, deliveryVars
  <2>2. DOMAIN rows' = DOMAIN rows /\ \A j \in DOMAIN rows : rows'[j].msg = rows[j].msg
    BY <2>1, RowsType DEF Read, Rows
  <2> QED
    BY <2>1, <2>2, OnceRead
<1>6. ASSUME UNCHANGED <<deliveryVars, rows>> PROVE Once'
  BY <1>6, OnceKept DEF deliveryVars
<1>7. CASE UNCHANGED vars
  BY <1>6, <1>7 DEF vars
<1>8. ASSUME NEW q \in marks, MarkFails(q) \/ MarkAnswers(q) PROVE Once'
  BY <1>6, <1>8 DEF MarkFails, MarkAnswers
<1>9. ASSUME \/ FetchStarts \/ Fetches
             \/ \E i \in pushes : PushEnds(i)
             \/ \E i \in DOMAIN rows \cup {All} : MarkStarts(i)
      PROVE  Once'
  BY <1>6, <1>9 DEF FetchStarts, Fetches, FetchReads, FetchLands, FetchFails, PushEnds, MarkStarts
<1> QED
  BY <1>2, <1>3, <1>4, <1>5, <1>7, <1>8, <1>9, CreateOnce, MailOnce
  DEF Next, Posts, Proceeds, MarkProceeds

\* A message is recorded and mailed at most once, however many invocations
\* overlap and wherever they end: the insert that loses to the unique column
\* answers without mailing, and a repeat finds the record.
THEOREM OneMailAlways == Spec => []OneMail
<1>1. Once => OneMail
  <2>1. MailedRecorded => \A m \in Message : mails[m] <= 1
    BY DEF MailedRecorded
  <2> QED
    BY <2>1 DEF Once, OneRecord, OneMail
<1> QED
  BY TypeCorrect, InitOnce, StepOnce, <1>1, PTL DEF Spec

-----------------------------------------------------------------------------
(* The browser's list. *)

\* The answer lists every record once, the newest first, as it is.
LEMMA ListingLists ==
  ASSUME TypeOK
  PROVE  /\ Len(rows) \in Nat /\ DOMAIN rows = 1 .. Len(rows) /\ DOMAIN Listing = 1 .. Len(rows)
         /\ \A n \in 1 .. Len(rows) :
              /\ Listing[n].id = Len(rows) - n + 1
              /\ Listing[n].read = rows[Len(rows) - n + 1].read
<1>1. DOMAIN rows = 1 .. Len(rows) /\ Len(rows) \in Nat
  BY RowsType
<1> DEFINE L == [i \in DOMAIN rows |-> [id |-> i, read |-> rows[i].read]]
<1>2. DOMAIN L = 1 .. Len(rows) /\ Len(L) = Len(rows)
  BY <1>1
<1>3. DOMAIN Listing = 1 .. Len(rows)
  BY <1>1, <1>2 DEF Listing, Reverse
<1>4. \A n \in 1 .. Len(rows) : Listing[n] = L[Len(rows) - n + 1] /\ Len(rows) - n + 1 \in DOMAIN rows
  BY <1>1, <1>2 DEF Listing, Reverse
<1> QED
  BY <1>1, <1>3, <1>4

LEMMA ListedStep ==
  ASSUME TypeOK, Listed, [Next]_vars
  PROVE  Distinct(shown)' /\ (fetch.state = "answer" => Distinct(fetch.list))'
<1> DEFINE Kept == UNCHANGED <<shown, fetch>>
<1>1. Kept => Distinct(shown)' /\ (fetch.state = "answer" => Distinct(fetch.list))'
  BY DEF Listed, Distinct
<1>2. ASSUME NEW i \in pushes, PushEnds(i)
      PROVE  Distinct(shown)' /\ (fetch.state = "answer" => Distinct(fetch.list))'
  <2>1. UNCHANGED fetch /\ (shown' = shown \/ (~Shows(i) /\ shown' = <<[id |-> i, read |-> FALSE]>> \o shown))
    BY <1>2 DEF PushEnds, Added
  <2>2. CASE ~Shows(i) /\ shown' = <<[id |-> i, read |-> FALSE]>> \o shown
    <3>1. shown \in Seq(Entry) /\ Len(shown) \in Nat /\ DOMAIN shown = 1 .. Len(shown)
      BY DEF TypeOK
    <3>2. /\ DOMAIN shown' = 1 .. Len(shown) + 1 /\ shown'[1].id = i
          /\ \A n \in 2 .. Len(shown) + 1 : shown'[n] = shown[n - 1] /\ n - 1 \in DOMAIN shown
      BY <2>2, <3>1
    <3>3. \A n \in DOMAIN shown : shown[n].id # i
      BY <2>2 DEF Shows
    <3>4. \A n, k \in DOMAIN shown' : shown'[n].id = shown'[k].id => n = k
      BY <3>1, <3>2, <3>3 DEF Listed, Distinct
    <3> QED
      BY <2>1, <3>4 DEF Listed, Distinct
  <2> QED
    BY <1>1, <2>1, <2>2
<1>3. CASE FetchReads
  <2>1. UNCHANGED shown /\ fetch' = [state |-> "answer", retried |-> fetch.retried, list |-> Listing]
    BY <1>3 DEF FetchReads
  <2>2. /\ Len(rows) \in Nat /\ DOMAIN Listing = 1 .. Len(rows)
        /\ \A n \in 1 .. Len(rows) : Listing[n].id = Len(rows) - n + 1
    BY ListingLists
  <2>3. Distinct(Listing)
    BY <2>2 DEF Distinct
  <2> QED
    BY <2>1, <2>3 DEF Listed, Distinct
<1>4. CASE FetchLands
  <2>1. shown' = fetch.list /\ fetch' = NoFetch /\ fetch.state = "answer"
    BY <1>4 DEF FetchLands
  <2> QED
    BY <2>1 DEF Listed, Distinct, NoFetch
<1>5. CASE FetchFails
  BY <1>5 DEF FetchFails, Listed, Distinct, Failed, Retried
<1>6. CASE FetchStarts
  BY <1>6 DEF FetchStarts, Asked, Listed, Distinct
<1>7. ASSUME NEW q \in marks, MarkAnswers(q)
      PROVE  Distinct(shown)' /\ (fetch.state = "answer" => Distinct(fetch.list))'
  BY <1>7 DEF MarkAnswers, Invalidated, Asked, Listed, Distinct
<1>8. ASSUME NEW m \in Message, Publish(m) \/ Posts(m) PROVE Kept
  BY <1>8 DEF Publish, Posts, Park, Deliver, browserVars
<1>9. ASSUME NEW h \in Handler, Proceeds(h) \/ HandlerFails(h) PROVE Kept
  BY <1>9 DEF Proceeds, CheckMessage, CheckJob, Create, Mail, HandlerFails, browserVars
<1>10. ASSUME NEW q \in marks, MarkWrites(q) \/ MarkFails(q) PROVE Kept
  BY <1>10 DEF MarkWrites, MarkFails
<1>11. ASSUME NEW i \in DOMAIN rows \cup {All}, MarkStarts(i) PROVE Kept
  BY <1>11 DEF MarkStarts
<1>12. CASE UNCHANGED vars
  BY <1>1, <1>12 DEF vars, browserVars
<1> QED
  BY <1>1, <1>2, <1>3, <1>4, <1>5, <1>6, <1>7, <1>8, <1>9, <1>10, <1>11, <1>12
  DEF Next, Fetches, MarkProceeds

\* The list a browser shows has no record twice, in whatever order pushes,
\* answers to the query and marks arrive.
THEOREM NoDuplicateShownAlways == Spec => []NoDuplicateShown
<1>1. Init => Listed
  BY InitTyped DEF Init, Listed, Distinct, Asked
<1>2. TypeOK /\ TypeOK' /\ Listed /\ [Next]_vars => Listed'
  BY ListedStep DEF Listed
<1>3. Listed => NoDuplicateShown
  BY DEF Listed, Distinct, NoDuplicateShown
<1> QED
  BY TypeCorrect, <1>1, <1>2, <1>3, PTL DEF Spec

-----------------------------------------------------------------------------
(* What is read is shown as read. *)

\* A record whose marks have all been told of: the answer that will replace the
\* list has it and as read, and so has the list once an answer has replaced it.
\* That the list has it matters: a push adds a record that is not there, unread.
Settled(i) ==
  /\ fetch.state = "answer" =>
       /\ \E n \in DOMAIN fetch.list : fetch.list[n].id = i
       /\ \A n \in DOMAIN fetch.list : fetch.list[n].id = i => fetch.list[n].read
  /\ fetch = NoFetch => Shows(i) /\ ~ShowsUnread(i)

Told == \A i \in DOMAIN rows : rows[i].read => Untold(i) \/ Settled(i)

\* A step that leaves the browser alone and marks nothing as read that was not.
LEMMA ToldKept ==
  ASSUME Told, UNCHANGED <<shown, fetch>>,
         \A q \in marks : q.state # "asked" =>
           \E p \in marks' : p.id = q.id /\ p.state # "asked",
         \A i \in DOMAIN rows' : rows'[i].read =>
           (i \in DOMAIN rows /\ rows[i].read) \/ Untold(i)'
  PROVE  Told'
<1> SUFFICES ASSUME NEW i \in DOMAIN rows', rows'[i].read, ~Untold(i)'
             PROVE  Settled(i)'
  BY DEF Told
<1>1. i \in DOMAIN rows /\ rows[i].read
  OBVIOUS
<1>2. ~Untold(i)
  BY DEF Untold
<1>3. Settled(i)
  BY <1>1, <1>2 DEF Told
<1> QED
  BY <1>3 DEF Settled, Shows, ShowsUnread

\* A list read now has every record, the read ones as read.
LEMMA ReadTold ==
  ASSUME TypeOK, FetchReads
  PROVE  Told'
<1>1. fetch' = [state |-> "answer", retried |-> fetch.retried, list |-> Listing] /\ UNCHANGED rows
  BY DEF FetchReads
<1>2. fetch'.state = "answer" /\ fetch'.list = Listing /\ fetch' # NoFetch
  BY <1>1 DEF NoFetch
<1> SUFFICES ASSUME NEW i \in DOMAIN rows, rows[i].read PROVE Settled(i)'
  BY <1>1 DEF Told
<1>3. /\ Len(rows) \in Nat /\ i \in 1 .. Len(rows) /\ DOMAIN Listing = 1 .. Len(rows)
      /\ \A n \in 1 .. Len(rows) : /\ Listing[n].id = Len(rows) - n + 1
                                    /\ Listing[n].read = rows[Len(rows) - n + 1].read
  BY ListingLists
<1>4. \E n \in DOMAIN Listing : Listing[n].id = i
  <2>1. Len(rows) - i + 1 \in DOMAIN Listing /\ Listing[Len(rows) - i + 1].id = i
    BY <1>3
  <2> QED
    BY <2>1
<1>5. ASSUME NEW n \in DOMAIN Listing, Listing[n].id = i PROVE Listing[n].read
  <2>1. Len(rows) - n + 1 = i
    BY <1>3, <1>5
  <2> QED
    BY <1>3, <2>1
<1> QED
  BY <1>2, <1>4, <1>5 DEF Settled

LEMMA PushTold ==
  ASSUME TypeOK, Told, NEW k \in pushes, PushEnds(k)
  PROVE  Told'
<1>1. UNCHANGED <<rows, fetch, marks>>
      /\ (shown' = shown \/ (~Shows(k) /\ shown' = <<[id |-> k, read |-> FALSE]>> \o shown))
  BY DEF PushEnds, Added
<1>2. CASE shown' = shown
  BY <1>1, <1>2, ToldKept
<1>3. CASE ~Shows(k) /\ shown' = <<[id |-> k, read |-> FALSE]>> \o shown
  <2>1. shown \in Seq(Entry) /\ Len(shown) \in Nat /\ DOMAIN shown = 1 .. Len(shown)
    BY DEF TypeOK
  <2>2. /\ DOMAIN shown' = 1 .. Len(shown) + 1 /\ shown'[1].id = k
        /\ \A n \in 2 .. Len(shown) + 1 : shown'[n] = shown[n - 1] /\ n - 1 \in DOMAIN shown
        /\ \A n \in DOMAIN shown : n + 1 \in DOMAIN shown' /\ shown'[n + 1] = shown[n]
    BY <1>3, <2>1
  <2> SUFFICES ASSUME NEW i \in DOMAIN rows, rows[i].read, ~Untold(i) PROVE Settled(i)'
    BY <1>1 DEF Told, Untold
  <2>3. Settled(i)
    BY DEF Told
  <2>4. ASSUME fetch = NoFetch PROVE Shows(i)' /\ ~ShowsUnread(i)'
    <3>1. Shows(i) /\ ~ShowsUnread(i)
      BY <2>3, <2>4 DEF Settled
    <3>2. i # k
      BY <1>3, <3>1
    <3>3. PICK n \in DOMAIN shown : shown[n].id = i
      BY <3>1 DEF Shows
    <3>4. Shows(i)'
      BY <2>2, <3>3 DEF Shows
    <3>5. ASSUME NEW m \in DOMAIN shown', shown'[m].id = i PROVE shown'[m].read
      <4>1. m \in 2 .. Len(shown) + 1
        BY <2>1, <2>2, <3>2, <3>5
      <4>2. m - 1 \in DOMAIN shown /\ shown[m - 1].id = i
        BY <2>2, <3>5, <4>1
      <4> QED
        BY <2>2, <3>1, <4>1, <4>2 DEF ShowsUnread
    <3> QED
      BY <3>4, <3>5 DEF ShowsUnread
  <2> QED
    BY <1>1, <2>3, <2>4 DEF Settled
<1> QED
  BY <1>1, <1>2, <1>3

\* A mark that is written or fails leaves every mark that was carried out, and
\* a record becomes read by a mark that is.
LEMMA MarkTold ==
  ASSUME TypeOK, Told, NEW q \in marks, MarkWrites(q) \/ MarkFails(q)
  PROVE  Told'
<1>1. q \in [id : Nat, state : {"asked", "answer", "lost"}]
  BY DEF TypeOK
<1>2. CASE MarkWrites(q)
  <2> DEFINE p == [q EXCEPT !.state = "answer"]
  <2>1. /\ q.state = "asked" /\ rows' = Read(q) /\ UNCHANGED <<shown, fetch>>
        /\ marks' = (marks \ {q}) \cup {p}
    BY <1>2 DEF MarkWrites
  <2>2. p.id = q.id /\ p.state = "answer" /\ p \in marks'
    BY <1>1, <2>1
  <2>3. \A r \in marks : r.state # "asked" => r \in marks'
    BY <2>1
  <2>4. ASSUME NEW i \in DOMAIN rows', rows'[i].read
        PROVE  (i \in DOMAIN rows /\ rows[i].read) \/ Untold(i)'
    <3>1. i \in DOMAIN rows /\ (rows[i].read \/ q.id \in {All, i})
      BY <2>1, <2>4, RowsType DEF Read, Rows
    <3>2. CASE q.id \in {All, i}
      BY <2>2, <3>2 DEF Untold
    <3> QED
      BY <3>1, <3>2
  <2> QED
    BY <2>1, <2>3, <2>4, ToldKept
<1>3. CASE MarkFails(q)
  <2>1. UNCHANGED <<rows, shown, fetch>>
    BY <1>3 DEF MarkFails
  <2>2. ASSUME NEW r \in marks, r.state # "asked"
        PROVE  \E p \in marks' : p.id = r.id /\ p.state # "asked"
    <3>1. CASE q.state = "asked"
      BY <1>3, <2>2, <3>1 DEF MarkFails
    <3>2. CASE q.state = "answer"
      <4> DEFINE p == [q EXCEPT !.state = "lost"]
      <4>1. marks' = (marks \ {q}) \cup {p} /\ p.id = q.id /\ p.state = "lost"
        BY <1>1, <1>3, <3>2 DEF MarkFails
      <4> QED
        BY <2>2, <4>1
    <3> QED
      BY <1>3, <3>1, <3>2 DEF MarkFails
  <2> QED
    BY <2>1, <2>2, ToldKept
<1> QED
  BY <1>2, <1>3

LEMMA StepTold == TypeOK /\ Told /\ [Next]_vars => Told'
<1> SUFFICES ASSUME TypeOK, Told, [Next]_vars PROVE Told'
  OBVIOUS
\* While a request is on its way, or when it failed, nothing is promised.
<1>1. ASSUME fetch'.state \notin {"none", "answer"} PROVE Told'
  BY <1>1 DEF Told, Settled, NoFetch
<1>2. CASE FetchStarts
  BY <1>1, <1>2 DEF FetchStarts, Asked
<1>3. CASE FetchFails
  BY <1>1, <1>3 DEF FetchFails, Failed, Retried
<1>4. ASSUME NEW q \in marks, MarkAnswers(q) PROVE Told'
  BY <1>1, <1>4 DEF MarkAnswers, Invalidated, Asked
<1>5. CASE FetchReads
  BY <1>5, ReadTold
<1>6. CASE FetchLands
  <2>1. fetch.state = "answer" /\ shown' = fetch.list /\ fetch' = NoFetch /\ UNCHANGED <<rows, marks>>
    BY <1>6 DEF FetchLands
  <2>2. \A i : Untold(i)' <=> Untold(i)
    BY <2>1 DEF Untold
  <2>3. ASSUME NEW i \in DOMAIN rows, Settled(i) PROVE Settled(i)'
    BY <2>1, <2>3 DEF Settled, Shows, ShowsUnread, NoFetch
  <2> QED
    BY <2>1, <2>2, <2>3 DEF Told
<1>7. ASSUME NEW k \in pushes, PushEnds(k) PROVE Told'
  BY <1>7, PushTold
<1>8. ASSUME NEW k \in DOMAIN rows \cup {All}, MarkStarts(k) PROVE Told'
  <2>1. UNCHANGED <<rows, shown, fetch>> /\ marks \subseteq marks'
    BY <1>8 DEF MarkStarts
  <2> QED
    BY <2>1, ToldKept
<1>9. ASSUME UNCHANGED <<rows, browserVars>> PROVE Told'
  BY <1>9, ToldKept DEF browserVars
<1>10. ASSUME NEW m \in Message, Publish(m) \/ Posts(m) PROVE Told'
  BY <1>9, <1>10 DEF Publish, Posts, Park, Deliver
<1>11. ASSUME NEW h \in Handler, Create(h) PROVE Told'
  <2>1. CASE rows' = rows
    BY <1>9, <1>11, <2>1 DEF Create
  <2>2. CASE rows' = Append(rows, Record(handler[h].msg))
    <3>1. handler[h] # IdleHandler
      BY <1>11 DEF Create, IdleHandler
    <3>2. Record(handler[h].msg) \in Rows /\ ~Record(handler[h].msg).read
      BY <3>1, HandlerType, RecordType DEF Record
    <3>3. /\ DOMAIN rows' = 1 .. Len(rows) + 1 /\ DOMAIN rows = 1 .. Len(rows) /\ Len(rows) \in Nat
          /\ \A j \in DOMAIN rows : rows'[j] = rows[j]
          /\ rows'[Len(rows) + 1] = Record(handler[h].msg)
      <4>1. rows \in Seq(Rows)
        BY DEF TypeOK, Rows
      <4> QED
        BY <2>2, <3>2, <4>1, AppendProperties, LenProperties
    <3>4. UNCHANGED <<shown, fetch, marks>>
      BY <1>11 DEF Create, browserVars
    <3> QED
      BY <3>2, <3>3, <3>4, ToldKept
  <2> QED
    BY <1>11, <2>1, <2>2 DEF Create
<1>12. ASSUME NEW h \in Handler, CheckMessage(h) \/ CheckJob(h) \/ Mail(h) \/ HandlerFails(h) PROVE Told'
  BY <1>9, <1>12 DEF CheckMessage, CheckJob, Mail, HandlerFails
<1>13. ASSUME NEW q \in marks, MarkWrites(q) \/ MarkFails(q) PROVE Told'
  BY <1>13, MarkTold
<1>14. CASE UNCHANGED vars
  BY <1>9, <1>14 DEF vars
<1> QED
  BY <1>2, <1>3, <1>4, <1>5, <1>6, <1>7, <1>8, <1>10, <1>11, <1>12, <1>13, <1>14
  DEF Next, Fetches, MarkProceeds, Proceeds

\* Once the last request for the list is answered nothing that is read is shown
\* as unread, unless the answer to its mark is still out or was lost: for any
\* number of marks, pushes and requests, failing and retried ones included.
THEOREM ReadIsShownAlways == Spec => []ReadIsShown
<1>1. Init => Told
  BY DEF Init, Told, Settled, Asked, NoFetch
<1>2. Told => ReadIsShown
  BY DEF Told, Settled, ReadIsShown
<1> QED
  BY TypeCorrect, StepTold, <1>1, <1>2, PTL DEF Spec

=============================================================================
