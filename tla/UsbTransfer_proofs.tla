-------------------------- MODULE UsbTransfer_proofs --------------------------
(***************************************************************************)
(* Proofs about UsbTransfer, for any number of endpoints and transfers: at *)
(* most one transfer is armed, no wait is lost, no report is lost, and     *)
(* what an endpoint returns is newer than what it returned before.         *)
(***************************************************************************)
EXTENDS UsbTransfer, SequenceTheorems, TLAPS

Report == [id : 1 .. MaxTransfer, kind : Kind]
Elements(s) == {s[i] : i \in DOMAIN s}
Waiting(e) == Elements(reports[e])

\* No transfer has a higher number than the last one; one that was answered is not armed, and
\* its report says data exactly if data came.
IdsOK ==
  \A e \in Endpoint :
    /\ xferIdRead[e] \in {0, posted[e]}
    /\ \A n \in armed[e] \cup answered[e] : n <= posted[e]
    /\ \A n \in armed[e] : n \notin answered[e]
    /\ \A r \in Waiting(e) :
         /\ r.id <= posted[e] /\ r.id \notin armed[e]
         /\ r.kind = "data" <=> r.id \in answered[e]

\* A signalled event belongs to the transfer the code waits for; as long as no fetch has failed
\* its report is the only one that waits.
EventOK ==
  \A e \in Endpoint :
    /\ signalled[e] => xferIdRead[e] # 0 /\ armed[e] = {}
    /\ ~missed[e] => /\ Len(reports[e]) = IF signalled[e] THEN 1 ELSE 0
                     /\ \A r \in Waiting(e) : r.id = xferIdRead[e]

\* The buffer holds the data that the report is about.
BufferOK ==
  \A e \in Endpoint : \A r \in Waiting(e) :
    r.kind = "data" /\ r.id = xferIdRead[e] => buffer[e] = r.id

\* What was returned is older than what is being read, which is older than what is armed.
OrderOK ==
  /\ \A e \in Endpoint :
       /\ output[e] <= posted[e]
       /\ xferIdRead[e] # 0 => output[e] < xferIdRead[e]
  /\ latest # 0 => /\ latest \in answered[idx] /\ output[idx] < latest
                   /\ xferIdRead[idx] # 0 => latest < xferIdRead[idx]
  /\ pc \in {"start", "stopped", "closed"} => latest = 0

Inv == TypeOK /\ OneTransfer /\ WaitCanEnd /\ NothingLost /\ IdsOK /\ EventOK /\ BufferOK /\ OrderOK

-----------------------------------------------------------------------------
\* The elements of a sequence that grows at its end.
LEMMA AppendElements ==
  ASSUME NEW S, NEW s \in Seq(S), NEW r \in S
  PROVE  /\ Append(s, r) \in Seq(S)
         /\ Len(Append(s, r)) = Len(s) + 1
         /\ Elements(Append(s, r)) = Elements(s) \cup {r}
<1> DEFINE t == Append(s, r)
<1>1. /\ t \in Seq(S) /\ Len(t) = Len(s) + 1 /\ Len(s) \in Nat
      /\ DOMAIN t = 1 .. Len(t) /\ DOMAIN s = 1 .. Len(s)
      /\ \A i \in 1 .. Len(s) : t[i] = s[i]
      /\ t[Len(s) + 1] = r
  BY AppendProperties, LenProperties
<1> HIDE DEF t
<1>2. 1 .. Len(t) = (1 .. Len(s)) \cup {Len(s) + 1}
  BY <1>1
<1>3. Elements(t) = Elements(s) \cup {r}
  BY <1>1, <1>2 DEF Elements
<1> QED BY <1>1, <1>3 DEF t

\* The elements of a sequence that loses its head.
LEMMA TailElements ==
  ASSUME NEW S, NEW s \in Seq(S), s # <<>>
  PROVE  /\ Tail(s) \in Seq(S)
         /\ Len(Tail(s)) = Len(s) - 1
         /\ Head(s) \in Elements(s) /\ Head(s) \in S
         /\ Elements(s) = Elements(Tail(s)) \cup {Head(s)}
<1> DEFINE t == Tail(s)
<1>1. /\ t \in Seq(S) /\ Len(t) = Len(s) - 1 /\ Len(s) \in Nat \ {0} /\ Head(s) \in S
      /\ DOMAIN t = 1 .. Len(t) /\ DOMAIN s = 1 .. Len(s)
      /\ \A i \in 1 .. Len(t) : t[i] = s[i + 1]
      /\ Head(s) = s[1]
  BY HeadTailProperties, LenProperties, EmptySeq
<1> HIDE DEF t
<1>2. \A i \in 1 .. Len(s) : i = 1 \/ (i - 1 \in 1 .. Len(t) /\ i = (i - 1) + 1)
  BY <1>1
<1>3. \A i \in 1 .. Len(t) : i + 1 \in 1 .. Len(s)
  BY <1>1
<1>4. Elements(t) \subseteq Elements(s) /\ Head(s) \in Elements(s)
  <2>1. ASSUME NEW i \in 1 .. Len(t) PROVE t[i] \in Elements(s)
    BY <1>1, <1>3 DEF Elements
  <2>2. 1 \in DOMAIN s
    BY <1>1
  <2>3. Head(s) \in Elements(s)
    BY <1>1, <2>2 DEF Elements
  <2>4. Elements(t) \subseteq Elements(s)
    BY <1>1, <2>1 DEF Elements
  <2> QED BY <2>3, <2>4
<1>5. ASSUME NEW i \in 1 .. Len(s) PROVE s[i] = Head(s) \/ s[i] \in Elements(t)
  <2>1. CASE i = 1
    BY <1>1, <2>1
  <2>2. CASE i # 1
    BY <1>1, <1>2, <2>2 DEF Elements
  <2> QED BY <2>1, <2>2
<1>6. Elements(s) \subseteq Elements(t) \cup {Head(s)}
  BY <1>1, <1>5 DEF Elements
<1> QED BY <1>1, <1>4, <1>6 DEF t

\* A sequence of one element, or of none.
LEMMA ShortSequences ==
  ASSUME NEW S, NEW s \in Seq(S)
  PROVE  /\ Len(s) = 0 => Elements(s) = {}
         /\ s = <<>> => Len(s) = 0
<1>1. Len(s) = 0 => DOMAIN s = {}
  BY LenProperties
<1> QED BY <1>1, EmptySeq DEF Elements

\* A sequence of one element.
LEMMA OneElement ==
  ASSUME NEW S, NEW s \in Seq(S), s # <<>>, Len(s) <= 1
  PROVE  Elements(s) = {Head(s)}
<1> DEFINE t == Tail(s)
<1>1. /\ t \in Seq(S) /\ Len(t) = Len(s) - 1
      /\ Elements(s) = Elements(t) \cup {Head(s)}
  BY TailElements
<1> HIDE DEF t
<1>2. Len(s) \in Nat /\ Len(t) \in Nat
  BY <1>1, LenProperties
<1>3. Len(t) = 0
  BY <1>1, <1>2
<1>4. Elements(t) = {}
  BY <1>1, <1>3, ShortSequences
<1> QED BY <1>1, <1>4

\* Pending, by the elements that wait.
LEMMA PendingWaits == \A e : Pending(e) = {r.id : r \in Waiting(e)}
BY DEF Pending, Waiting, Elements

\* What waits are reports.
LEMMA WaitingReports == ASSUME TypeOK, NEW e \in Endpoint PROVE Waiting(e) \subseteq Report
<1>1. reports[e] \in Seq(Report)
  BY DEF TypeOK, Report
<1>2. \A i \in DOMAIN reports[e] : reports[e][i] \in Report
  BY <1>1, LenProperties, ElementOfSeq
<1> QED BY <1>2 DEF Waiting, Elements

\* Nothing is armed, reported or read at the start.
LEMMA InitInv == Init => Inv
<1> SUFFICES ASSUME Init PROVE Inv
  OBVIOUS
<1>1. /\ 0 \in Endpoint /\ 0 \in 0 .. Endpoints /\ 0 \in 0 .. MaxTransfer
      /\ <<>> \in Seq(Report) /\ Len(<<>>) = 0 /\ Elements(<<>>) = {}
  <2>1. <<>> \in Seq(Report) /\ Len(<<>>) = 0
    BY EmptySeq
  <2>2. Elements(<<>>) = {}
    BY <2>1, ShortSequences
  <2> QED BY <2>1, <2>2, TransferConstantsOK DEF Endpoint
<1>2. TypeOK
  BY <1>1 DEF Init, All, TypeOK, Report
<1>3. \A e \in Endpoint : Waiting(e) = {} /\ reports[e] = <<>>
  BY <1>1 DEF Init, All, Waiting
<1> QED
  BY <1>1, <1>2, <1>3 DEF Init, All, Inv, OneTransfer, WaitCanEnd, NothingLost, IdsOK, EventOK, BufferOK, OrderOK

\* The device's answer takes the armed transfer to the reports.
LEMMA AnswerInv ==
  ASSUME Inv, NEW e \in Endpoint, NEW n \in 1 .. MaxTransfer, NEW kind \in Kind, Answer(e, n, kind)
  PROVE  Inv'
<1> USE DEF Inv
<1> DEFINE r == [id |-> n, kind |-> kind]
<1>1. r \in Report /\ reports[e] \in Seq(Report)
  BY DEF Report, TypeOK
<1>2. /\ armed[e] = {n} /\ xferIdRead[e] = n /\ armed'[e] = {}
      /\ \A d \in Endpoint : d # e => armed'[d] = armed[d]
  BY SMTT(30) DEF Answer, OneTransfer, TypeOK
<1>3. /\ reports' \in [Endpoint -> Seq(Report)]
      /\ Len(reports'[e]) = Len(reports[e]) + 1
      /\ Waiting(e)' = Waiting(e) \cup {r}
      /\ \A d \in Endpoint : d # e => reports'[d] = reports[d] /\ Waiting(d)' = Waiting(d)
  <2>1. /\ reports' = [reports EXCEPT ![e] = Append(@, r)]
        /\ reports \in [Endpoint -> Seq(Report)]
    BY DEF Answer, TypeOK, Report
  <2>2. /\ Append(reports[e], r) \in Seq(Report)
        /\ Len(Append(reports[e], r)) = Len(reports[e]) + 1
        /\ Elements(Append(reports[e], r)) = Elements(reports[e]) \cup {r}
    BY <1>1, AppendElements
  <2> HIDE DEF r
  <2>3. /\ reports'[e] = Append(reports[e], r)
        /\ reports' \in [Endpoint -> Seq(Report)]
        /\ \A d \in Endpoint : d # e => reports'[d] = reports[d]
    BY <2>1, <2>2
  <2> QED BY <2>2, <2>3 DEF Waiting
<1>4. TypeOK'
  <2>1. /\ armed' \in [Endpoint -> SUBSET (1 .. MaxTransfer)]
        /\ signalled' \in [Endpoint -> BOOLEAN]
        /\ answered' \in [Endpoint -> SUBSET (1 .. MaxTransfer)]
    BY DEF Answer, TypeOK
  <2>2. buffer' \in [Endpoint -> 0 .. MaxTransfer]
    <3>1. /\ buffer \in [Endpoint -> 0 .. MaxTransfer]
          /\ buffer' = buffer \/ buffer' = [buffer EXCEPT ![e] = n]
      BY DEF Answer, TypeOK
    <3>2. n \in 0 .. MaxTransfer
      BY TransferConstantsOK
    <3> HIDE DEF Inv, r
    <3> QED BY <3>1, <3>2
  <2> QED BY <1>3, <2>1, <2>2 DEF Answer, TypeOK, Report, code, sweep
<1>5. /\ ~signalled[e]
      /\ signalled'[e] /\ \A d \in Endpoint : d # e => signalled'[d] = signalled[d]
      /\ \A d \in Endpoint : d # e => buffer'[d] = buffer[d] /\ answered'[d] = answered[d]
      /\ kind # "empty" => buffer'[e] = n
      /\ answered'[e] = IF kind = "data" THEN answered[e] \cup {n} ELSE answered[e]
  BY <1>2 DEF Answer, EventOK, TypeOK
<1>6. /\ xferIdRead' = xferIdRead /\ posted' = posted /\ missed' = missed
      /\ idx' = idx /\ latest' = latest /\ output' = output /\ pc' = pc
  BY DEF Answer, code, sweep
<1>7. \A q \in Waiting(e) : q.id # n
  BY <1>2 DEF IdsOK
<1>8. IdsOK'
  BY <1>2, <1>3, <1>5, <1>6, <1>7 DEF IdsOK
<1>9. EventOK'
  <2> SUFFICES ASSUME NEW d \in Endpoint
               PROVE  /\ signalled'[d] => xferIdRead'[d] # 0 /\ armed'[d] = {}
                      /\ ~missed'[d] => /\ Len(reports'[d]) = IF signalled'[d] THEN 1 ELSE 0
                                        /\ \A q \in Waiting(d)' : q.id = xferIdRead'[d]
    BY DEF EventOK
  <2>1. CASE d = e
    <3>1. signalled'[d] => xferIdRead'[d] # 0 /\ armed'[d] = {}
      BY <1>2, <1>6, <2>1
    <3>2. ~missed[e] => Len(reports[e]) = 0 /\ \A q \in Waiting(e) : q.id = n
      BY <1>2, <1>5 DEF EventOK
    <3>3. Waiting(d)' = Waiting(e) \cup {r}
      BY <1>3, <2>1 DEF Waiting
    <3>4. ~missed'[d] => Len(reports'[d]) = 1 /\ \A q \in Waiting(e) \cup {r} : q.id = n
      <4>1. ~missed'[d] => Len(reports'[d]) = 1
        <5>1. ~missed[e] => Len(reports[e]) = 0
          BY <3>2
        <5>2. Len(reports'[d]) = Len(reports[e]) + 1 /\ missed'[d] = missed[e]
          BY <1>3, <1>6, <2>1
        <5> QED BY <5>1, <5>2
      <4>2. r.id = n
        OBVIOUS
      <4>3. ~missed'[d] => \A q \in Waiting(e) \cup {r} : q.id = n
        <5> HIDE DEF r
        <5> QED BY <1>6, <2>1, <3>2, <4>2
      <4> QED BY <4>1, <4>3
    <3> QED BY <1>2, <1>5, <1>6, <2>1, <3>1, <3>3, <3>4
  <2>2. CASE d # e
    <3>1. /\ reports'[d] = reports[d] /\ Waiting(d)' = Waiting(d)
          /\ signalled'[d] = signalled[d] /\ armed'[d] = armed[d]
      BY <1>2, <1>3, <1>5, <2>2
    <3> QED BY <1>6, <3>1 DEF EventOK
  <2> QED BY <2>1, <2>2
<1>10. BufferOK'
  BY <1>2, <1>3, <1>5, <1>6, <1>7 DEF BufferOK
<1>11. OneTransfer' /\ WaitCanEnd'
  BY <1>2, <1>5, <1>6 DEF OneTransfer, WaitCanEnd
<1>12. OrderOK'
  <2>1. \A d \in Endpoint : answered[d] \subseteq answered'[d]
    BY <1>5
  <2>2. idx \in Endpoint
    BY DEF TypeOK
  <2> QED BY <1>6, <2>1, <2>2 DEF OrderOK
<1>13. NothingLost'
  <2> SUFFICES ASSUME NEW d \in Endpoint, NEW a \in answered'[d]
               PROVE  a <= output'[d] \/ (idx' = d /\ a <= latest') \/ a \in Pending(d)' \/ missed'[d]
    BY DEF NothingLost
  <2>1. Pending(d)' = {q.id : q \in Waiting(d)'}
    BY DEF Pending, Waiting, Elements
  <2>2. CASE d = e /\ a = n
    BY <1>3, <2>1, <2>2
  <2>3. CASE a \in answered[d]
    BY <1>3, <1>6, <2>1, <2>3, PendingWaits DEF NothingLost
  <2> QED BY <1>5, <2>2, <2>3
<1> QED BY <1>4, <1>8, <1>9, <1>10, <1>11, <1>12, <1>13

\* What is counted is a number.
LEMMA OvertakesCounts ==
  ASSUME overtaken \in [Endpoint -> Nat], Overtakes
  PROVE  overtaken' \in [Endpoint -> Nat]
<1>1. \A e \in Endpoint : (IF e = idx \/ Unread(e) = {} THEN 0 ELSE overtaken[e] + 1) \in Nat
  OBVIOUS
<1> QED BY <1>1 DEF Overtakes

\* A read that fails ends the drain: what it has gathered is returned.
LEMMA ReadFailsGives ==
  ASSUME Inv, ReadFails
  PROVE  /\ latest' = 0 /\ pc' \in {"start", "post"}
         /\ idx' \in Endpoint /\ current' \in Endpoint /\ probe' \in 0 .. Endpoints
         /\ output' \in [Endpoint -> 0 .. MaxTransfer] /\ overtaken' \in [Endpoint -> Nat]
         /\ latest # 0 => output'[idx] = latest
         /\ \A e \in Endpoint : e # idx \/ latest = 0 => output'[e] = output[e]
<1> USE DEF Inv, TypeOK
<1>1. \A n \in Nat : n % Endpoints \in Endpoint
  BY TransferConstantsOK DEF Endpoint
<1>2. idx + 1 \in Nat /\ current + 1 \in Nat /\ current + probe + 1 \in Nat
  BY DEF Endpoint
<1>3. CASE SweepServes
  <2>1. overtaken' \in [Endpoint -> Nat]
    BY <1>3, OvertakesCounts DEF SweepServes
  <2> QED BY <1>1, <1>2, <1>3, <2>1 DEF ReadFails, SweepServes
<1>4. CASE SweepGoesOn
  <2>1. idx' \in Endpoint /\ probe' \in 0 .. Endpoints /\ latest = 0 /\ latest' = 0
        /\ current' = current /\ output' = output /\ overtaken' = overtaken /\ pc' = "post"
    BY <1>1, <1>2, <1>4, TransferConstantsOK DEF ReadFails, SweepGoesOn
  <2> QED BY <2>1
<1>5. CASE SweepBlocks
  <2>1. idx' \in Endpoint /\ current' \in Endpoint
    BY <1>1, <1>2, <1>5 DEF SweepBlocks
  <2>2. probe' \in 0 .. Endpoints /\ latest = 0 /\ latest' = 0 /\ pc' = "post"
        /\ output' = output /\ overtaken' = overtaken
    BY <1>5, TransferConstantsOK DEF ReadFails, SweepBlocks
  <2> QED BY <2>1, <2>2
<1>6. CASE SweepEndsIdle
  BY <1>6 DEF ReadFails, SweepEndsIdle, sweep
<1> QED BY <1>3, <1>4, <1>5, <1>6 DEF ReadFails

\* What a failed read does to the sweep keeps what was returned in order and loses nothing.
LEMMA ReadFailsKeeps ==
  ASSUME Inv, ReadFails, pc # "closed",
         UNCHANGED <<posted, armed, reports, signalled, buffer, answered, missed, xferIdRead, running>>
  PROVE  Inv'
<1> USE DEF Inv
<1>1. /\ latest' = 0 /\ pc' \in {"start", "post"}
      /\ idx' \in Endpoint /\ current' \in Endpoint /\ probe' \in 0 .. Endpoints
      /\ output' \in [Endpoint -> 0 .. MaxTransfer] /\ overtaken' \in [Endpoint -> Nat]
      /\ latest # 0 => output'[idx] = latest
      /\ \A e \in Endpoint : e # idx \/ latest = 0 => output'[e] = output[e]
  BY ReadFailsGives
<1>2. TypeOK'
  <2>1. /\ latest' \in 0 .. MaxTransfer
        /\ pc' \in {"start", "post", "wait", "stopped", "closed"}
    BY <1>1, TransferConstantsOK
  <2> QED BY <1>1, <2>1 DEF TypeOK
<1>3. OneTransfer' /\ WaitCanEnd' /\ IdsOK' /\ BufferOK'
  <2>1. IdsOK' /\ BufferOK'
    BY DEF IdsOK, BufferOK, Waiting
  <2>2. OneTransfer' /\ WaitCanEnd'
    BY DEF OneTransfer, WaitCanEnd
  <2> QED BY <2>1, <2>2
<1>4. EventOK'
  BY DEF EventOK, Waiting
<1>5. OrderOK'
  BY <1>1 DEF OrderOK, IdsOK, TypeOK
<1>6. NothingLost'
  <2> SUFFICES ASSUME NEW e \in Endpoint, NEW n \in answered[e]
               PROVE  n <= output'[e] \/ n \in Pending(e) \/ missed[e]
    BY DEF NothingLost, Pending
  <2>1. n \in 1 .. MaxTransfer
    BY DEF TypeOK
  <2>2. n <= output[e] \/ (idx = e /\ n <= latest) \/ n \in Pending(e) \/ missed[e]
    BY DEF NothingLost
  <2>3. CASE e # idx \/ latest = 0
    BY <1>1, <2>1, <2>2, <2>3
  <2>4. CASE e = idx /\ latest # 0
    <3>1. output[e] \in Nat /\ latest \in Nat /\ output[e] < latest /\ output'[e] = latest
      BY <1>1, <2>4 DEF OrderOK, TypeOK
    <3> QED BY <2>1, <2>2, <3>1
  <2> QED BY <2>3, <2>4
<1> QED BY <1>2, <1>3, <1>4, <1>5, <1>6

\* A transfer is posted when none is armed; its number is new.
LEMMA PostsInv ==
  ASSUME Inv, Posts
  PROVE  Inv'
<1> USE DEF Inv
<1> DEFINE new == posted[idx] + 1
<1>1. /\ new \in 1 .. MaxTransfer /\ idx \in Endpoint /\ armed[idx] = {} /\ ~signalled[idx]
      /\ pc = "post" /\ pc' = "wait"
  <2>1. idx \in Endpoint /\ posted[idx] \in 0 .. MaxTransfer /\ posted[idx] < MaxTransfer
    BY DEF Posts, TypeOK
  <2>2. armed[idx] \subseteq {0} /\ armed[idx] \subseteq 1 .. MaxTransfer
    BY <2>1 DEF Posts, OneTransfer, TypeOK
  <2> QED BY <2>1, <2>2, TransferConstantsOK DEF Posts, EventOK
<1>2. /\ posted'[idx] = new /\ xferIdRead'[idx] = new /\ armed'[idx] = {new}
      /\ \A e \in Endpoint : e # idx => /\ posted'[e] = posted[e] /\ armed'[e] = armed[e]
                                       /\ xferIdRead'[e] = xferIdRead[e]
      /\ UNCHANGED <<reports, signalled, buffer, answered, missed, idx, latest, output>>
  BY <1>1 DEF Posts, TypeOK, sweep
<1>3. TypeOK'
  <2>1. /\ xferIdRead' \in [Endpoint -> 0 .. MaxTransfer] /\ posted' \in [Endpoint -> 0 .. MaxTransfer]
        /\ armed' \in [Endpoint -> SUBSET (1 .. MaxTransfer)]
    <3>1. new \in 0 .. MaxTransfer /\ armed[idx] \cup {new} \in SUBSET (1 .. MaxTransfer)
      BY <1>1
    <3> QED BY <3>1 DEF Posts, TypeOK
  <2> QED BY <1>1, <1>2, <2>1 DEF Posts, TypeOK, sweep
<1>4. posted[idx] \in Nat /\ \A e \in Endpoint : posted[e] \in Nat /\ output[e] \in Nat
  BY <1>1 DEF TypeOK
<1>5. \A e \in Endpoint : Waiting(e)' = Waiting(e)
  BY <1>2 DEF Waiting
<1>6. \A r \in Waiting(idx) : r.id \in Nat /\ r.id <= posted[idx] /\ r.id # new
  <2> SUFFICES ASSUME NEW r \in Waiting(idx) PROVE r.id \in Nat /\ r.id <= posted[idx] /\ r.id # new
    OBVIOUS
  <2>1. r.id <= posted[idx]
    BY <1>1 DEF IdsOK
  <2>2. r \in Report
    BY <1>1, WaitingReports
  <2> QED BY <1>4, <2>1, <2>2 DEF Report
<1>7. \A n \in answered[idx] : n \in Nat /\ n <= posted[idx] /\ n # new
  <2> SUFFICES ASSUME NEW n \in answered[idx] PROVE n \in Nat /\ n <= posted[idx] /\ n # new
    OBVIOUS
  <2>1. n \in Nat /\ n <= posted[idx]
    BY <1>1 DEF IdsOK, TypeOK
  <2> QED BY <1>4, <2>1
<1>8. IdsOK'
  <2> SUFFICES ASSUME NEW e \in Endpoint
               PROVE  /\ xferIdRead'[e] \in {0, posted'[e]}
                      /\ \A n \in armed'[e] \cup answered'[e] : n <= posted'[e]
                      /\ \A n \in armed'[e] : n \notin answered'[e]
                      /\ \A r \in Waiting(e)' :
                           /\ r.id <= posted'[e] /\ r.id \notin armed'[e]
                           /\ r.kind = "data" <=> r.id \in answered'[e]
    BY DEF IdsOK
  <2>1. CASE e = idx
    <3>1. \A n \in armed'[e] \cup answered'[e] : n <= posted'[e]
      BY <1>2, <1>4, <1>7, <2>1
    <3>2. Waiting(e)' = Waiting(idx)
      BY <1>5, <2>1
    <3>3. \A r \in Waiting(idx) :
            /\ r.id <= posted'[e] /\ r.id \notin armed'[e]
            /\ r.kind = "data" <=> r.id \in answered'[e]
      BY <1>1, <1>2, <1>4, <1>6, <2>1 DEF IdsOK
    <3>4. xferIdRead'[e] \in {0, posted'[e]} /\ \A n \in armed'[e] : n \notin answered'[e]
      BY <1>2, <1>7, <2>1
    <3> HIDE DEF new
    <3> QED BY <3>1, <3>2, <3>3, <3>4
  <2>2. CASE e # idx
    BY <1>2, <1>5, <2>2 DEF IdsOK
  <2> QED BY <2>1, <2>2
<1>9. EventOK'
  <2> SUFFICES ASSUME NEW e \in Endpoint
               PROVE  /\ signalled[e] => xferIdRead'[e] # 0 /\ armed'[e] = {}
                      /\ ~missed[e] => /\ Len(reports[e]) = IF signalled[e] THEN 1 ELSE 0
                                       /\ \A r \in Waiting(e) : r.id = xferIdRead'[e]
    BY <1>2, <1>5 DEF EventOK
  <2>1. CASE e = idx
    <3>1. ~missed[idx] => Len(reports[idx]) = 0
      BY <1>1 DEF EventOK
    <3>2. Len(reports[idx]) = 0 => Waiting(idx) = {}
      BY <1>1, ShortSequences DEF Waiting, TypeOK
    <3> QED BY <1>1, <2>1, <3>1, <3>2
  <2>2. CASE e # idx
    BY <1>2, <2>2 DEF EventOK
  <2> QED BY <2>1, <2>2
<1>10. BufferOK'
  BY <1>2, <1>5, <1>6 DEF BufferOK
<1>11. OneTransfer' /\ WaitCanEnd'
  BY <1>1, <1>2 DEF OneTransfer, WaitCanEnd
<1>12. OrderOK'
  <2>1. output[idx] < new
    BY <1>1, <1>4 DEF OrderOK
  <2>2. latest # 0 => latest < new
    BY <1>1, <1>4, <1>7 DEF OrderOK
  <2>3. \A e \in Endpoint : output'[e] <= posted'[e]
    BY <1>2, <1>4 DEF OrderOK
  <2> HIDE DEF new
  <2> QED BY <1>1, <1>2, <2>1, <2>2, <2>3 DEF OrderOK
<1>13. NothingLost'
  BY <1>2 DEF NothingLost, Pending
<1> QED BY <1>3, <1>8, <1>9, <1>10, <1>11, <1>12, <1>13

\* Taking the transfer's number leaves nothing armed and nothing to wait for.
LEMMA TakenKeeps ==
  ASSUME Inv, Taken,
         \A e \in Endpoint : Waiting(e)' \subseteq Waiting(e),
         \A e \in Endpoint : e # idx => reports'[e] = reports[e] /\ missed'[e] = missed[e],
         reports' \in [Endpoint -> Seq(Report)],
         missed'[idx] \/ Len(reports'[idx]) = 0
  PROVE  OneTransfer' /\ WaitCanEnd' /\ IdsOK' /\ EventOK' /\ BufferOK'
<1> USE DEF Inv
<1>1. /\ idx \in Endpoint /\ armed' = armed /\ armed[idx] = {} /\ posted' = posted
      /\ answered' = answered /\ buffer' = buffer
      /\ xferIdRead[idx] # 0 /\ xferIdRead'[idx] = 0 /\ ~signalled'[idx]
      /\ \A e \in Endpoint : e # idx => xferIdRead'[e] = xferIdRead[e] /\ signalled'[e] = signalled[e]
      /\ pc = "wait"
  BY DEF Taken, TypeOK, EventOK
<1>2. OneTransfer' /\ WaitCanEnd'
  BY <1>1 DEF OneTransfer, WaitCanEnd
<1>3. IdsOK'
  BY <1>1 DEF IdsOK
<1>4. EventOK'
  <2> SUFFICES ASSUME NEW e \in Endpoint
               PROVE  /\ signalled'[e] => xferIdRead'[e] # 0 /\ armed'[e] = {}
                      /\ ~missed'[e] => /\ Len(reports'[e]) = IF signalled'[e] THEN 1 ELSE 0
                                        /\ \A r \in Waiting(e)' : r.id = xferIdRead'[e]
    BY DEF EventOK
  <2>1. CASE e = idx
    <3>1. Len(reports'[e]) = 0 => Elements(reports'[e]) = {}
      BY ShortSequences
    <3> QED BY <1>1, <2>1, <3>1 DEF Waiting
  <2>2. CASE e # idx
    BY <1>1, <2>2 DEF EventOK
  <2> QED BY <2>1, <2>2
<1>5. \A e \in Endpoint : \A r \in Waiting(e) : r.id # 0
  <2> SUFFICES ASSUME NEW e \in Endpoint, NEW r \in Waiting(e) PROVE r.id # 0
    OBVIOUS
  <2>1. r \in Report
    BY WaitingReports
  <2> QED BY <2>1, TransferConstantsOK DEF Report
<1>6. BufferOK'
  BY <1>1, <1>5 DEF BufferOK
<1> QED BY <1>2, <1>3, <1>4, <1>6

\* A fetch that fails, and one whose report is not good, lose no data that was not lost.
LEMMA DropsInv ==
  ASSUME Inv, Taken, ReadFails,
         \/ reports' = reports /\ missed' = [missed EXCEPT ![idx] = TRUE]
         \/ /\ reports[idx] # <<>> /\ ~Good(Head(reports[idx]))
            /\ reports' = [reports EXCEPT ![idx] = Tail(@)] /\ missed' = missed
  PROVE  Inv'
<1> USE DEF Inv
<1>1. /\ latest' = 0 /\ pc' \in {"start", "post"}
      /\ idx' \in Endpoint /\ current' \in Endpoint /\ probe' \in 0 .. Endpoints
      /\ output' \in [Endpoint -> 0 .. MaxTransfer] /\ overtaken' \in [Endpoint -> Nat]
      /\ latest # 0 => output'[idx] = latest
      /\ \A e \in Endpoint : e # idx \/ latest = 0 => output'[e] = output[e]
  BY ReadFailsGives
<1>2. /\ idx \in Endpoint /\ reports \in [Endpoint -> Seq(Report)] /\ reports[idx] \in Seq(Report)
      /\ missed \in [Endpoint -> BOOLEAN]
  BY DEF TypeOK, Report
<1>3. signalled[idx] /\ pc = "wait" /\ xferIdRead[idx] # 0
  BY DEF Taken, EventOK, TypeOK
<1>4. /\ reports' \in [Endpoint -> Seq(Report)] /\ missed' \in [Endpoint -> BOOLEAN]
      /\ missed'[idx] \/ Len(reports'[idx]) = 0
      /\ \A e \in Endpoint : e # idx => reports'[e] = reports[e] /\ missed'[e] = missed[e]
      /\ \A e \in Endpoint : Waiting(e)' \subseteq Waiting(e)
      /\ \A e \in Endpoint : \A n \in answered[e] : n \in Pending(e) => n \in Pending(e)' \/ missed'[e]
      /\ \A e \in Endpoint : missed[e] => missed'[e]
  <2>1. CASE reports' = reports /\ missed' = [missed EXCEPT ![idx] = TRUE]
    BY <1>2, <2>1 DEF Waiting, Pending
  <2>2. CASE /\ reports[idx] # <<>> /\ ~Good(Head(reports[idx]))
             /\ reports' = [reports EXCEPT ![idx] = Tail(@)] /\ missed' = missed
    <3> DEFINE h == Head(reports[idx])
               t == Tail(reports[idx])
    <3>1. /\ t \in Seq(Report) /\ Len(t) = Len(reports[idx]) - 1 /\ h \in Waiting(idx)
          /\ Waiting(idx) = Elements(t) \cup {h}
      BY <1>2, <2>2, TailElements DEF Waiting
    <3> HIDE DEF h, t
    <3>2. /\ reports' \in [Endpoint -> Seq(Report)] /\ reports'[idx] = t
          /\ \A e \in Endpoint : e # idx => reports'[e] = reports[e]
      BY <1>2, <2>2, <3>1 DEF t
    <3>3. \A e \in Endpoint : Waiting(e)' = IF e = idx THEN Elements(t) ELSE Waiting(e)
      BY <3>2 DEF Waiting
    <3>4. ~missed[idx] => Len(reports[idx]) = 1 /\ h.id = xferIdRead[idx]
      BY <1>2, <1>3, <3>1 DEF EventOK
    <3>5. ~missed[idx] => h.id \notin answered[idx]
      BY <1>2, <2>2, <3>1, <3>4 DEF IdsOK, Good, h
    <3>6. ~missed[idx] => Len(t) = 0
      BY <3>1, <3>4
    <3>7. ASSUME NEW e \in Endpoint, NEW n \in answered[e], n \in Pending(e), ~missed[e]
          PROVE  n \in Pending(e)'
      <4>1. PICK r \in Waiting(e) : n = r.id
        BY <3>7, PendingWaits
      <4>2. r \in Waiting(e)'
        BY <3>1, <3>3, <3>5, <3>7, <4>1
      <4>3. Pending(e)' = {q.id : q \in Waiting(e)'}
        BY DEF Pending, Waiting, Elements
      <4> QED BY <4>1, <4>2, <4>3
    <3>8. /\ \A e \in Endpoint : Waiting(e)' \subseteq Waiting(e)
          /\ \A e \in Endpoint : \A n \in answered[e] : n \in Pending(e) => n \in Pending(e)' \/ missed'[e]
      BY <2>2, <3>1, <3>3, <3>7
    <3> QED BY <1>2, <2>2, <3>2, <3>6, <3>8
  <2> QED BY <2>1, <2>2
<1>5. OneTransfer' /\ WaitCanEnd' /\ IdsOK' /\ EventOK' /\ BufferOK'
  BY <1>4, TakenKeeps
<1>6. TypeOK'
  <2>1. latest' \in 0 .. MaxTransfer
    BY <1>1, TransferConstantsOK
  <2>2. signalled' \in [Endpoint -> BOOLEAN] /\ xferIdRead' \in [Endpoint -> 0 .. MaxTransfer]
    BY TransferConstantsOK DEF Taken, TypeOK
  <2> QED BY <1>1, <1>4, <2>1, <2>2 DEF TypeOK, Taken, Report
<1>7. /\ answered' = answered /\ posted' = posted /\ xferIdRead'[idx] = 0
      /\ \A e \in Endpoint : e # idx => xferIdRead'[e] = xferIdRead[e]
  BY <1>2 DEF Taken, TypeOK
<1>8. OrderOK'
  <2> SUFFICES ASSUME NEW e \in Endpoint
               PROVE  output'[e] <= posted[e] /\ (xferIdRead'[e] # 0 => output'[e] < xferIdRead[e])
    BY <1>1, <1>7 DEF OrderOK
  <2>1. CASE e = idx /\ latest # 0
    BY <1>1, <1>2, <1>7, <2>1 DEF OrderOK, IdsOK
  <2>2. CASE ~(e = idx /\ latest # 0)
    BY <1>1, <1>7, <2>2 DEF OrderOK
  <2> QED BY <2>1, <2>2
<1>9. NothingLost'
  <2> SUFFICES ASSUME NEW e \in Endpoint, NEW n \in answered[e]
               PROVE  n <= output'[e] \/ n \in Pending(e)' \/ missed'[e]
    BY <1>7 DEF NothingLost
  <2>1. n \in 1 .. MaxTransfer
    BY DEF TypeOK
  <2>2. n <= output[e] \/ (idx = e /\ n <= latest) \/ n \in Pending(e) \/ missed[e]
    BY DEF NothingLost
  <2>3. CASE e # idx \/ latest = 0
    BY <1>1, <1>4, <2>1, <2>2, <2>3
  <2>4. CASE e = idx /\ latest # 0
    <3>1. output[e] \in Nat /\ latest \in Nat /\ output[e] < latest /\ output'[e] = latest
      BY <1>1, <2>4 DEF OrderOK, TypeOK
    <3> QED BY <1>4, <2>1, <2>2, <3>1
  <2> QED BY <2>3, <2>4
<1> QED BY <1>5, <1>6, <1>8, <1>9

\* A good report is newer than all that was read, and it is the data in the buffer.
LEMMA SucceedsInv ==
  ASSUME Inv, Fetches, Good(Head(reports[idx]))
  PROVE  Inv'
<1> USE DEF Inv
<1> DEFINE x == xferIdRead[idx]
           h == Head(reports[idx])
           t == Tail(reports[idx])
<1>1. /\ Taken /\ reports[idx] # <<>> /\ reports' = [reports EXCEPT ![idx] = t]
      /\ latest' = buffer[idx] /\ pc' = "post"
      /\ UNCHANGED <<current, probe, idx, output, overtaken, missed>>
  BY DEF Fetches, ReadSucceeds, sweep
<1>2. /\ idx \in Endpoint /\ reports \in [Endpoint -> Seq(Report)] /\ reports[idx] \in Seq(Report)
  BY DEF TypeOK, Report
<1>3. /\ t \in Seq(Report) /\ Len(t) = Len(reports[idx]) - 1 /\ h \in Waiting(idx)
      /\ Waiting(idx) = Elements(t) \cup {h}
  BY <1>1, <1>2, TailElements DEF Waiting
<1>4. /\ signalled[idx] /\ pc = "wait" /\ x # 0 /\ x \in Nat /\ x = posted[idx]
      /\ h.id = x /\ buffer[idx] = x /\ x \in answered[idx]
  <2>1. signalled[idx] /\ pc = "wait" /\ x # 0 /\ x \in Nat /\ x = posted[idx]
    BY <1>1, <1>2 DEF Taken, EventOK, IdsOK, TypeOK
  <2>2. h.id = x /\ h.kind = "data"
    BY DEF Good
  <2> HIDE DEF h, x
  <2>3. buffer[idx] = x /\ x \in answered[idx]
    BY <1>2, <1>3, <2>2 DEF BufferOK, IdsOK, x
  <2> QED BY <2>1, <2>2, <2>3
<1> HIDE DEF h, t
<1>5. /\ reports' \in [Endpoint -> Seq(Report)] /\ reports'[idx] = t
      /\ \A e \in Endpoint : e # idx => reports'[e] = reports[e]
  BY <1>1, <1>2, <1>3
<1>6. \A e \in Endpoint : Waiting(e)' = IF e = idx THEN Elements(t) ELSE Waiting(e)
  BY <1>5 DEF Waiting
<1>7. missed[idx] \/ Len(t) = 0
  BY <1>2, <1>3, <1>4 DEF EventOK
<1>8. OneTransfer' /\ WaitCanEnd' /\ IdsOK' /\ EventOK' /\ BufferOK'
  BY <1>1, <1>3, <1>5, <1>6, <1>7, TakenKeeps
<1>9. TypeOK'
  <2>1. latest' \in 0 .. MaxTransfer
    BY <1>1, <1>2 DEF TypeOK
  <2>2. signalled' \in [Endpoint -> BOOLEAN] /\ xferIdRead' \in [Endpoint -> 0 .. MaxTransfer]
    BY <1>1, TransferConstantsOK DEF Taken, TypeOK
  <2> QED BY <1>1, <1>5, <2>1, <2>2 DEF TypeOK, Taken, Report
<1>10. /\ answered' = answered /\ posted' = posted /\ xferIdRead'[idx] = 0
       /\ \A e \in Endpoint : e # idx => xferIdRead'[e] = xferIdRead[e]
  BY <1>1, <1>2 DEF Taken, TypeOK
<1>11. OrderOK'
  BY <1>1, <1>2, <1>4, <1>10 DEF OrderOK
<1>12. NothingLost'
  <2> SUFFICES ASSUME NEW e \in Endpoint, NEW n \in answered[e]
               PROVE  \/ n <= output[e]
                      \/ idx = e /\ n <= x
                      \/ n \in Pending(e)'
                      \/ missed[e]
    BY <1>1, <1>4, <1>10 DEF NothingLost
  <2>1. n \in 1 .. MaxTransfer /\ n <= posted[e]
    BY DEF TypeOK, IdsOK
  <2>2. CASE e = idx
    BY <1>4, <2>1, <2>2
  <2>3. CASE e # idx
    <3>1. Pending(e)' = Pending(e)
      BY <1>5, <2>3 DEF Pending
    <3> QED BY <2>3, <3>1 DEF NothingLost
  <2> QED BY <2>2, <2>3
<1> QED BY <1>8, <1>9, <1>11, <1>12

\* Steps that touch neither the transfers nor what was read.
LEMMA QuietInv ==
  ASSUME Inv,
         UNCHANGED <<reports, signalled, buffer, answered, xferIdRead, posted, missed, latest, output, overtaken>>,
         armed' = armed \/ (armed' = All({}) /\ pc' = "closed"),
         idx' = idx \/ latest = 0, idx' \in Endpoint, current' = current, probe' \in 0 .. Endpoints,
         running' \in BOOLEAN, pc' \in {"start", "post", "wait", "stopped", "closed"},
         pc = "closed" => pc' = "closed", pc' \in {"start", "stopped", "closed"} => latest = 0
  PROVE  Inv'
<1> USE DEF Inv
<1>1. \A e \in Endpoint : armed'[e] \subseteq armed[e] /\ Waiting(e)' = Waiting(e) /\ Pending(e)' = Pending(e)
  BY DEF All, Waiting, Pending
<1>2. armed' \in [Endpoint -> SUBSET (1 .. MaxTransfer)]
  BY DEF All, TypeOK
<1>3. TypeOK'
  BY <1>2 DEF TypeOK
<1>4. OneTransfer' /\ IdsOK' /\ BufferOK'
  BY <1>1 DEF OneTransfer, IdsOK, BufferOK
<1>5. EventOK'
  BY <1>1 DEF EventOK
<1>6. WaitCanEnd'
  BY DEF WaitCanEnd
<1>7. OrderOK' /\ NothingLost'
  <2>1. latest # 0 => idx' = idx
    OBVIOUS
  <2>2. OrderOK'
    BY <2>1 DEF OrderOK
  <2>3. \A e \in Endpoint : \A n \in answered[e] : n \in 1 .. MaxTransfer
    BY DEF TypeOK
  <2>4. NothingLost'
    BY <1>1, <2>1, <2>3 DEF NothingLost
  <2> QED BY <2>2, <2>4
<1> QED BY <1>3, <1>4, <1>5, <1>6, <1>7

\* Inv is inductive.
LEMMA Invariance == Spec => []Inv
<1>1. Inv /\ [Next]_vars => Inv'
  <2> SUFFICES ASSUME Inv, [Next]_vars PROVE Inv'
    OBVIOUS
  <2> USE DEF Inv
  <2>0. /\ idx \in Endpoint /\ current \in Endpoint /\ probe \in 0 .. Endpoints /\ running \in BOOLEAN
        /\ pc \in {"start", "post", "wait", "stopped", "closed"} /\ 0 \in 0 .. Endpoints
        /\ pc \in {"start", "stopped", "closed"} => latest = 0
    BY TransferConstantsOK DEF TypeOK, OrderOK
  <2>1. CASE Thread
    <3>1. CASE StartsSweep
      BY <2>0, <3>1, QuietInv DEF StartsSweep, usbhs, code
    <3>2. CASE AlreadyArmed \/ Stops
      BY <2>0, <3>2, QuietInv DEF AlreadyArmed, Stops, usbhs, code, sweep
    <3>3. CASE Closes
      BY <2>0, <3>3, QuietInv DEF Closes, code, sweep
    <3>4. CASE Posts
      BY <3>4, PostsInv
    <3>5. CASE PostFails \/ WaitFails
      BY <3>5, ReadFailsKeeps DEF PostFails, WaitFails, usbhs, code
    <3>6. CASE FetchFails
      BY <3>6, DropsInv DEF FetchFails
    <3>7. CASE Fetches
      <4>1. CASE Good(Head(reports[idx]))
        BY <3>7, <4>1, SucceedsInv
      <4>2. CASE ~Good(Head(reports[idx]))
        BY <3>7, <4>2, DropsInv DEF Fetches
      <4> QED BY <4>1, <4>2
    <3> QED BY <2>1, <3>1, <3>2, <3>3, <3>4, <3>5, <3>6, <3>7 DEF Thread
  <2>2. CASE Device
    BY <2>2, AnswerInv DEF Device
  <2>3. CASE Stop \/ Closed \/ UNCHANGED vars
    BY <2>0, <2>3, QuietInv DEF Stop, Closed, vars, usbhs, code, sweep
  <2> QED BY <2>1, <2>2, <2>3 DEF Next
<1> QED BY <1>1, InitInv, PTL DEF Spec

-----------------------------------------------------------------------------
\* Every variable keeps its type, for any number of endpoints and of transfers.
THEOREM TypeCorrect == Spec => []TypeOK
BY Invariance, PTL DEF Inv

\* ReadAsync never has two transfers armed on an endpoint, however many reads time out.
THEOREM OneTransferArmed == Spec => []OneTransfer
BY Invariance, PTL DEF Inv

\* The transfer whose number is kept is armed, or its event is signalled.
THEOREM NoWaitIsLost == Spec => []WaitCanEnd
BY Invariance, PTL DEF Inv

\* A report that the device has sent is returned, superseded, or still waits.
THEOREM NoReportIsLost == Spec => []NothingLost
BY Invariance, PTL DEF Inv

\* What an endpoint returns is data of the device that is newer than what it returned before.
THEOREM ReportsInOrder == Spec => DeliveredInOrder
<1> DEFINE Newer == \A e \in Endpoint : output'[e] # output[e] =>
                       output'[e] > output[e] /\ output'[e] \in answered'[e]
<1>1. Inv /\ [Next]_vars => [Newer]_vars
  <2> SUFFICES ASSUME Inv, Next PROVE Newer
    OBVIOUS
  <2>1. ASSUME ReadFails, answered' = answered PROVE Newer
    <3>1. /\ latest # 0 => output'[idx] = latest
          /\ \A e \in Endpoint : e # idx \/ latest = 0 => output'[e] = output[e]
      BY <2>1, ReadFailsGives
    <3>2. latest # 0 => latest > output[idx] /\ latest \in answered[idx]
      BY DEF Inv, OrderOK, TypeOK
    <3> QED BY <2>1, <3>1, <3>2
  <2>2. CASE PostFails \/ WaitFails \/ FetchFails
    BY <2>1, <2>2 DEF PostFails, WaitFails, FetchFails, Taken, usbhs
  <2>3. CASE Fetches
    BY <2>1, <2>3 DEF Fetches, ReadSucceeds, Taken
  <2>4. CASE StartsSweep \/ AlreadyArmed \/ Posts \/ Stops \/ Closes \/ Stop \/ Closed
    BY <2>4 DEF StartsSweep, AlreadyArmed, Posts, Stops, Closes, Stop, Closed, vars
  <2>5. CASE Device
    BY <2>5 DEF Device, Answer
  <2> QED BY <2>2, <2>3, <2>4, <2>5 DEF Next, Thread
<1> QED BY <1>1, Invariance, PTL DEF Spec, DeliveredInOrder

-----------------------------------------------------------------------------
(* Every endpoint has its turn.                                            *)

\* How far the turn has to move from current to reach e.
Distance(e) == IF e >= current THEN e - current ELSE e - current + Endpoints

Sweeping == pc \in {"post", "wait"}

\* The sweep is as far from current as it has passed endpoints over; the read that blocks is on the
\* endpoint behind which the next sweep starts.
PlaceOK == Sweeping => Distance(idx) = IF probe < Endpoints THEN probe ELSE Endpoints - 1

\* Every report that overtakes moves the turn nearer, and an endpoint that was overtaken is not
\* passed over: its report came before this sweep began.
TurnsOK ==
  \A e \in Endpoint : ~missed[e] /\ overtaken[e] > 0 =>
    /\ Unread(e) # {}
    /\ overtaken[e] + Distance(e) < Endpoints
    /\ Sweeping => probe <= Distance(e)

\* The remainder of a number of less than two rounds.
LEMMA Remainder ==
  ASSUME NEW x \in Nat, x < 2 * Endpoints
  PROVE  x % Endpoints = IF x < Endpoints THEN x ELSE x - Endpoints
BY TransferConstantsOK

\* The place that is n behind e.
LEMMA Wraps ==
  ASSUME NEW e \in Endpoint, NEW n \in 0 .. Endpoints
  PROVE  (e + n) % Endpoints = IF e + n < Endpoints THEN e + n ELSE (e + n) - Endpoints
<1>1. e + n \in Nat /\ e + n < 2 * Endpoints
  BY TransferConstantsOK DEF Endpoint
<1> QED BY <1>1, Remainder, Zenon

\* The distance is less than one round, and no two endpoints are at the same.
LEMMA Distances ==
  ASSUME current \in Endpoint
  PROVE  /\ \A e \in Endpoint : Distance(e) \in 0 .. Endpoints - 1
         /\ \A d, e \in Endpoint : Distance(d) = Distance(e) => d = e
BY TransferConstantsOK DEF Endpoint, Distance

\* A read that fails ends the drain with everything read: nothing that was answered is newer
\* than what the drain has in its buffer, unless the fetch itself has failed.
LEMMA DrainIsComplete ==
  ASSUME Inv, PostFails \/ WaitFails \/ FetchFails \/ (Fetches /\ ~Good(Head(reports[idx]))),
         ~missed'[idx]
  PROVE  \A n \in answered[idx] : n <= output[idx] \/ n <= latest
<1> USE DEF Inv
<1>1. idx \in Endpoint /\ missed \in [Endpoint -> BOOLEAN] /\ reports[idx] \in Seq(Report)
  BY DEF TypeOK, Report
<1>2. ~FetchFails /\ ~missed[idx]
  BY <1>1 DEF FetchFails, PostFails, WaitFails, Fetches, code
<1>3. \A n \in Pending(idx) : n \notin answered[idx]
  <2>1. CASE PostFails \/ WaitFails
    <3>1. ~signalled[idx]
      BY <1>1, <2>1 DEF PostFails, WaitFails, EventOK
    <3>2. Waiting(idx) = {}
      BY <1>1, <1>2, <3>1, ShortSequences DEF EventOK, Waiting
    <3> QED BY <3>2, PendingWaits
  <2>2. CASE Fetches /\ ~Good(Head(reports[idx]))
    <3>1. Head(reports[idx]) \in Waiting(idx)
      BY <1>1, <2>2, TailElements DEF Fetches, Waiting
    <3>2. \A r \in Waiting(idx) : r = Head(reports[idx])
      <4>1. Len(reports[idx]) <= 1
        BY <1>1, <1>2 DEF EventOK
      <4>2. reports[idx] # <<>>
        BY <2>2 DEF Fetches
      <4> QED BY <1>1, <4>1, <4>2, OneElement DEF Waiting
    <3>3. Head(reports[idx]).id = xferIdRead[idx]
      BY <1>1, <1>2, <3>1 DEF EventOK
    <3>4. Head(reports[idx]).id \notin answered[idx]
      BY <1>1, <2>2, <3>1, <3>3 DEF Good, IdsOK
    <3> QED BY <3>2, <3>4, PendingWaits
  <2> QED BY <1>2, <2>1, <2>2
<1> QED BY <1>1, <1>2, <1>3 DEF NothingLost

\* Nothing is overtaken at the start.
LEMMA InitTurns == Init => PlaceOK /\ TurnsOK
BY DEF Init, All, PlaceOK, Sweeping, TurnsOK

\* A report that is returned overtakes those of other endpoints; the turn moves on behind it.
LEMMA ServesTurns ==
  ASSUME TypeOK, PlaceOK, TurnsOK, SweepServes, Sweeping,
         UNCHANGED answered, \A e \in Endpoint : missed[e] => missed'[e]
  PROVE  (PlaceOK /\ TurnsOK)'
<1>1. /\ idx \in Endpoint /\ current \in Endpoint /\ probe \in 0 .. Endpoints /\ ~Sweeping'
      /\ overtaken \in [Endpoint -> Nat] /\ Endpoints \in Nat \ {0}
      /\ current' = IF idx + 1 = Endpoints THEN 0 ELSE idx + 1
  <2>1. /\ idx \in Endpoint /\ current \in Endpoint /\ probe \in 0 .. Endpoints
        /\ overtaken \in [Endpoint -> Nat] /\ Endpoints \in Nat \ {0}
        /\ ~Sweeping' /\ current' = (idx + 1) % Endpoints
    BY TransferConstantsOK DEF SweepServes, TypeOK, Sweeping
  <2>2. idx + 1 <= Endpoints /\ 1 \in 0 .. Endpoints
    BY <2>1 DEF Endpoint
  <2>3. (idx + 1) % Endpoints = IF idx + 1 < Endpoints THEN idx + 1 ELSE (idx + 1) - Endpoints
    BY <2>1, <2>2, Wraps, Zenon
  <2>4. current' = IF idx + 1 < Endpoints THEN idx + 1 ELSE (idx + 1) - Endpoints
    BY <2>1, <2>3, Zenon
  <2>5. idx + 1 < Endpoints \/ idx + 1 = Endpoints
    BY <2>1, <2>2 DEF Endpoint
  <2> QED BY <2>1, <2>4, <2>5
<1>2. ASSUME NEW e \in Endpoint, ~missed'[e], overtaken'[e] > 0
      PROVE  Unread(e)' # {} /\ overtaken'[e] + Distance(e)' < Endpoints
  <2>1. ~missed[e] /\ e # idx /\ Unread(e) # {} /\ overtaken'[e] = overtaken[e] + 1
    BY <1>2 DEF SweepServes, Overtakes
  <2>2. Unread(e)' = Unread(e)
    BY <1>1, <2>1 DEF SweepServes, Unread, TypeOK
  <2>3. Distance(e) # Distance(idx) /\ Distance(e) \in 0 .. Endpoints - 1 /\ Distance(idx) \in 0 .. Endpoints - 1
    BY <1>1, <2>1, Distances
  <2>4. Distance(e)' = IF Distance(e) > Distance(idx) THEN Distance(e) - Distance(idx) - 1
                       ELSE Distance(e) - Distance(idx) - 1 + Endpoints
    BY <1>1, <2>1 DEF Distance, Endpoint
  <2>5. overtaken[e] = 0 \/ (overtaken[e] + Distance(e) < Endpoints /\ Distance(e) > Distance(idx))
    <3>1. overtaken[e] > 0 => overtaken[e] + Distance(e) < Endpoints /\ probe <= Distance(e)
      BY <2>1 DEF TurnsOK
    <3>2. Distance(idx) = IF probe < Endpoints THEN probe ELSE Endpoints - 1
      BY DEF PlaceOK
    <3> QED BY <1>1, <2>3, <3>1, <3>2
  <2>6. overtaken[e] \in Nat
    BY <1>1
  <2> HIDE DEF Distance
  <2> QED BY <1>1, <2>1, <2>2, <2>3, <2>4, <2>5, <2>6
<1> QED BY <1>1, <1>2 DEF PlaceOK, TurnsOK

\* An endpoint with nothing to read is passed over, and so none that was overtaken is.
LEMMA PassesTurns ==
  ASSUME TypeOK, PlaceOK, TurnsOK, SweepGoesOn \/ SweepBlocks \/ SweepEndsIdle, Sweeping,
         UNCHANGED answered, \A e \in Endpoint : missed[e] => missed'[e],
         Unread(idx) = {} \/ missed'[idx]
  PROVE  (PlaceOK /\ TurnsOK)'
<1>1. /\ idx \in Endpoint /\ current \in Endpoint /\ probe \in 0 .. Endpoints
      /\ overtaken \in [Endpoint -> Nat] /\ Endpoints \in Nat \ {0}
  BY TransferConstantsOK DEF TypeOK
<1>2. overtaken' = overtaken /\ \A e \in Endpoint : Unread(e)' = Unread(e)
  BY DEF SweepGoesOn, SweepBlocks, SweepEndsIdle, Unread
<1>3. ASSUME NEW e \in Endpoint, ~missed'[e], overtaken[e] > 0
      PROVE  /\ ~missed[e] /\ Unread(e) # {} /\ overtaken[e] + Distance(e) < Endpoints
             /\ probe < Endpoints /\ probe < Distance(e)
  <2>1. /\ ~missed[e] /\ Unread(e) # {} /\ overtaken[e] + Distance(e) < Endpoints
        /\ probe <= Distance(e)
    BY <1>3 DEF TurnsOK
  <2>2. Distance(e) # Distance(idx) /\ Distance(e) \in 0 .. Endpoints - 1
    BY <1>1, <1>3, <2>1, Distances
  <2>3. Distance(idx) = IF probe < Endpoints THEN probe ELSE Endpoints - 1
    BY DEF PlaceOK
  <2> QED BY <1>1, <2>1, <2>2, <2>3
<1>4. CASE SweepGoesOn
  <2>1. /\ current' = current /\ probe' = probe + 1 /\ probe' < Endpoints
        /\ idx' = IF current + probe' < Endpoints THEN current + probe' ELSE (current + probe') - Endpoints
    <3>1. /\ current' = current /\ probe' = probe + 1 /\ probe' < Endpoints
          /\ idx' = (current + probe') % Endpoints
      BY <1>1, <1>4 DEF SweepGoesOn, Endpoint
    <3>2. current \in Endpoint /\ probe' \in 0 .. Endpoints
      BY <1>1, <3>1
    <3>3. (current + probe') % Endpoints
             = IF current + probe' < Endpoints THEN current + probe' ELSE (current + probe') - Endpoints
      BY <3>2, Wraps, Zenon
    <3>4. idx' = IF current + probe' < Endpoints THEN current + probe' ELSE (current + probe') - Endpoints
      BY <3>1, <3>3, Zenon
    <3>5. /\ current' = current /\ probe' = probe + 1 /\ probe' < Endpoints
      BY <3>1, Zenon
    <3> QED BY <3>4, <3>5, Zenon
  <2>2. Distance(idx)' = probe'
    BY <1>1, <2>1 DEF Distance, Endpoint
  <2>3. \A e \in Endpoint : Distance(e)' = Distance(e)
    BY <2>1 DEF Distance
  <2>4. ASSUME NEW e \in Endpoint, ~missed'[e], overtaken[e] > 0
        PROVE  probe' <= Distance(e)
    <3>1. Distance(e) \in Nat
      BY <1>1, Distances
    <3> QED BY <1>1, <1>3, <2>1, <2>4, <3>1
  <2> HIDE DEF Distance
  <2> QED BY <1>2, <1>3, <2>1, <2>2, <2>3, <2>4 DEF PlaceOK, TurnsOK
<1>5. CASE SweepBlocks
  <2>1. \A e \in Endpoint : missed'[e] \/ ~(overtaken[e] > 0)
    <3> SUFFICES ASSUME NEW e \in Endpoint, ~missed'[e], overtaken[e] > 0 PROVE FALSE
      OBVIOUS
    <3>1. probe < Distance(e) /\ Distance(e) \in 0 .. Endpoints - 1
      BY <1>1, <1>3, Distances
    <3> QED BY <1>1, <1>5, <3>1 DEF SweepBlocks
  <2>2. /\ probe' = Endpoints /\ idx' = current
        /\ current' = IF current + 1 = Endpoints THEN 0 ELSE current + 1
    <3>1. current + 1 \in Nat /\ current + 1 <= Endpoints
      BY <1>1 DEF Endpoint
    <3> QED BY <1>1, <1>5, <3>1, Wraps DEF SweepBlocks
  <2>3. Distance(idx)' = Endpoints - 1
    BY <1>1, <2>2 DEF Distance, Endpoint
  <2> HIDE DEF Distance
  <2> QED BY <1>1, <1>2, <2>1, <2>2, <2>3 DEF PlaceOK, TurnsOK
<1>6. CASE SweepEndsIdle
  <2>1. ~Sweeping' /\ \A e \in Endpoint : Distance(e)' = Distance(e)
    BY <1>6 DEF SweepEndsIdle, Sweeping, sweep, Distance
  <2> HIDE DEF Distance
  <2> QED BY <1>2, <1>3, <2>1 DEF PlaceOK, TurnsOK
<1> QED BY <1>4, <1>5, <1>6

\* A read that fails keeps the turns, whether it ends a drain or found nothing to read.
LEMMA FailedReadTurns ==
  ASSUME Inv, PlaceOK, TurnsOK,
         PostFails \/ WaitFails \/ FetchFails \/ (Fetches /\ ~Good(Head(reports[idx])))
  PROVE  (PlaceOK /\ TurnsOK)'
<1>1. /\ ReadFails /\ UNCHANGED answered /\ Sweeping
      /\ missed' \in {missed, [missed EXCEPT ![idx] = TRUE]}
  BY DEF PostFails, WaitFails, FetchFails, Fetches, Taken, usbhs, code, Sweeping
<1>2. /\ TypeOK /\ idx \in Endpoint /\ answered \in [Endpoint -> SUBSET (1 .. MaxTransfer)]
      /\ output \in [Endpoint -> 0 .. MaxTransfer]
  BY DEF Inv, TypeOK
<1>3. \A e \in Endpoint : missed[e] => missed'[e]
  BY <1>1, <1>2 DEF TypeOK
<1>4. CASE SweepServes
  BY <1>1, <1>2, <1>3, <1>4, ServesTurns
<1>5. CASE ~SweepServes
  <2>1. latest = 0 /\ (SweepGoesOn \/ SweepBlocks \/ SweepEndsIdle)
    BY <1>1, <1>5 DEF ReadFails, SweepGoesOn, SweepBlocks, SweepEndsIdle
  <2>2. Unread(idx) = {} \/ missed'[idx]
    BY <1>2, <2>1, DrainIsComplete DEF Unread
  <2> QED BY <1>1, <1>2, <1>3, <2>1, <2>2, PassesTurns
<1> QED BY <1>4, <1>5

\* The place of the sweep and the turns are kept.
LEMMA TurnsInvariance == Spec => [](PlaceOK /\ TurnsOK)
<1>1. Inv /\ PlaceOK /\ TurnsOK /\ [Next]_vars => (PlaceOK /\ TurnsOK)'
  <2> SUFFICES ASSUME Inv, PlaceOK, TurnsOK, [Next]_vars PROVE (PlaceOK /\ TurnsOK)'
    OBVIOUS
  <2>1. CASE PostFails \/ WaitFails \/ FetchFails \/ (Fetches /\ ~Good(Head(reports[idx])))
    BY <2>1, FailedReadTurns
  <2>2. /\ current \in Endpoint /\ \A e \in Endpoint : Distance(e) \in 0 .. Endpoints - 1
        /\ TypeOK
    BY Distances DEF Inv, TypeOK
  <2>3. CASE StartsSweep
    <3>1. /\ probe' = 0 /\ idx' = current /\ UNCHANGED <<current, answered, output, missed, overtaken>>
      BY <2>3 DEF StartsSweep, usbhs, code
    <3>2. Distance(idx)' = 0 /\ 0 < Endpoints /\ \A e \in Endpoint : Unread(e)' = Unread(e) /\ Distance(e)' = Distance(e)
      BY <2>2, <3>1, TransferConstantsOK DEF Distance, Endpoint, Unread
    <3> QED BY <2>2, <3>1, <3>2 DEF PlaceOK, TurnsOK
  <2>4. CASE Device
    <3>1. /\ UNCHANGED <<current, probe, idx, pc, output, missed, overtaken>>
          /\ \A e \in Endpoint : answered[e] \subseteq answered'[e]
      BY <2>2, <2>4 DEF Device, Answer, code, sweep, TypeOK
    <3>2. \A e \in Endpoint : Unread(e) \subseteq Unread(e)' /\ Distance(e)' = Distance(e)
      BY <3>1 DEF Unread, Distance
    <3>3. Distance(idx)' = Distance(idx) /\ (Sweeping' <=> Sweeping)
      BY <3>1 DEF Distance, Sweeping
    <3> QED BY <3>1, <3>2, <3>3 DEF PlaceOK, TurnsOK
  <2>5. CASE \/ Fetches /\ Good(Head(reports[idx]))
             \/ AlreadyArmed \/ Posts \/ Stops \/ Closes \/ Stop \/ Closed \/ UNCHANGED vars
    <3>1. /\ UNCHANGED <<current, probe, idx, answered, output, missed, overtaken>>
          /\ Sweeping' => Sweeping
      BY <2>5 DEF Fetches, ReadSucceeds, Taken, AlreadyArmed, Posts, Stops, Closes, Stop, Closed, vars,
         usbhs, code, sweep, Sweeping
    <3>2. \A e : Unread(e)' = Unread(e) /\ Distance(e)' = Distance(e)
      BY <3>1 DEF Unread, Distance
    <3>3. Distance(idx)' = Distance(idx)
      BY <3>1 DEF Distance
    <3> QED BY <3>1, <3>2, <3>3 DEF PlaceOK, TurnsOK
  <2> QED BY <2>1, <2>3, <2>4, <2>5 DEF Next, Thread
<1> QED BY <1>1, InitTurns, Invariance, PTL DEF Spec

\* A report is overtaken by fewer reports of other endpoints than there are endpoints.
THEOREM EndpointsTakeTurns == Spec => []EveryEndpointInTurn
<1>1. Inv /\ PlaceOK /\ TurnsOK => EveryEndpointInTurn
  <2> SUFFICES ASSUME Inv, TurnsOK, NEW e \in Endpoint, ~missed[e] PROVE overtaken[e] < Endpoints
    BY DEF EveryEndpointInTurn
  <2>1. overtaken[e] \in Nat /\ Distance(e) \in Nat /\ Endpoints \in Nat \ {0}
    BY Distances, TransferConstantsOK DEF Inv, TypeOK
  <2>2. overtaken[e] > 0 => overtaken[e] + Distance(e) < Endpoints
    BY DEF TurnsOK
  <2> HIDE DEF Distance
  <2> QED BY <2>1, <2>2
<1> QED BY <1>1, Invariance, TurnsInvariance, PTL

-----------------------------------------------------------------------------
(* UsbTransfer implements EndpointSweep.                                   *)

\* A read that fails returns the newest report, or passes the endpoint over because it has none.
LEMMA FailedReadSweeps ==
  ASSUME Inv, PostFails \/ WaitFails \/ FetchFails \/ (Fetches /\ ~Good(Head(reports[idx])))
  PROVE  Sweep!MayFail /\ (Sweep!Serves \/ Sweep!PassesOver \/ Sweep!Blocks \/ Sweep!GivesUp)
<1> USE DEF Inv
<1>1. /\ ReadFails /\ UNCHANGED answered /\ pc \in {"post", "wait"}
      /\ missed' \in {missed, [missed EXCEPT ![idx] = TRUE]}
  BY DEF PostFails, WaitFails, FetchFails, Fetches, Taken, usbhs, code
<1>2. /\ idx \in Endpoint /\ latest \in 0 .. MaxTransfer /\ answered \in [Endpoint -> SUBSET (1 .. MaxTransfer)]
      /\ output \in [Endpoint -> 0 .. MaxTransfer]
  BY DEF TypeOK
<1>3. Sweep!MayFail
  BY <1>1 DEF Sweep!MayFail
<1>4. missed'[idx] \/ \A n \in answered[idx] : n <= output[idx] \/ n <= latest
  BY DrainIsComplete
<1>5. CASE SweepServes
  <2>1. /\ latest \in answered[idx] /\ output[idx] < latest /\ output' = [output EXCEPT ![idx] = latest]
        /\ current' = (idx + 1) % Endpoints /\ pc' = "start" /\ UNCHANGED <<probe, idx>>
    BY <1>5 DEF SweepServes, OrderOK
  <2>2. latest \in Unread(idx)
    BY <1>2, <2>1 DEF Unread
  <2>3. missed'[idx] \/ \A m \in Unread(idx) : m <= latest
    BY <1>2, <1>4 DEF Unread
  <2> DEFINE U == [e \in Endpoint |-> Unread(e)]
             newer == {m \in U[idx] : m > latest}
  <2>4. U' = [U EXCEPT ![idx] = newer]
    <3>1. ASSUME NEW e \in Endpoint, e # idx PROVE U'[e] = U[e]
      BY <1>1, <1>2, <2>1, <3>1 DEF Unread
    <3>2. U'[idx] = newer
      <4>1. output'[idx] = latest /\ \A n \in answered[idx] : n > latest => n > output[idx]
        BY <1>2, <2>1
      <4> QED BY <1>1, <1>2, <4>1 DEF Unread
    <3>3. U = [e \in Endpoint |-> U[e]] /\ U' = [e \in Endpoint |-> U'[e]]
      OBVIOUS
    <3> HIDE DEF U, newer
    <3> QED BY <3>1, <3>2, <3>3
  <2>5. latest \in U[idx] /\ (missed'[idx] \/ \A m \in U[idx] : m <= latest)
    BY <1>2, <2>2, <2>3 DEF Unread
  <2>6. Sweep!Serves
    <3>1. U' = [U EXCEPT ![idx] = {m \in @ : m > latest}]
      <4> HIDE DEF U
      <4> QED BY <2>4
    <3>2. \E n \in U[idx] :
            /\ missed'[idx] \/ \A m \in U[idx] : m <= n
            /\ output' = [output EXCEPT ![idx] = n]
            /\ U' = [U EXCEPT ![idx] = {m \in @ : m > n}]
      <4> HIDE DEF U
      <4> QED BY <2>1, <2>5, <3>1
    <3>3. pc \in {"post", "wait"} /\ (pc \in {"post", "wait"})' = FALSE
      BY <1>1, <2>1
    <3> QED BY <2>1, <3>2, <3>3, Zenon DEF Sweep!Serves
  <2> QED BY <1>3, <2>6
<1>6. CASE ~SweepServes
  <2>1. latest = 0 /\ output' = output
    BY <1>1, <1>6 DEF ReadFails, SweepGoesOn, SweepBlocks, SweepEndsIdle
  <2>2. Unread(idx) = {} \/ missed'[idx]
    BY <1>2, <1>4, <2>1 DEF Unread
  <2>3. Sweep!FindsNothing
    BY <1>1, <1>2, <2>1, <2>2 DEF Sweep!FindsNothing, Unread
  <2> QED
    BY <1>1, <1>3, <1>6, <2>3 DEF ReadFails, SweepGoesOn, SweepBlocks, SweepEndsIdle, sweep,
       Sweep!PassesOver, Sweep!Blocks, Sweep!GivesUp
<1> QED BY <1>5, <1>6

\* An answer with data is the newest report of its endpoint; another kind does not show.
LEMMA AnswerArrives ==
  ASSUME Inv, NEW e \in Endpoint, NEW n \in 1 .. MaxTransfer, NEW kind \in Kind, Answer(e, n, kind)
  PROVE  Sweep!Arrives(e, n) \/ UNCHANGED Sweep!vars
<1> USE DEF Inv
<1>1. /\ answered \in [Endpoint -> SUBSET (1 .. MaxTransfer)] /\ output \in [Endpoint -> 0 .. MaxTransfer]
      /\ UNCHANGED <<output, missed, pc, current, probe, idx>>
  BY DEF TypeOK, Answer, code, sweep
<1>2. n = xferIdRead[e] /\ n \notin answered[e]
  BY SMTT(30) DEF Answer, OneTransfer, IdsOK
<1>3. n # 0 /\ n = posted[e]
  BY <1>2 DEF IdsOK
<1>4. output[e] < n
  BY <1>2, <1>3 DEF OrderOK
<1>5. \A m \in answered[e] : n > m
  <2> SUFFICES ASSUME NEW m \in answered[e] PROVE n > m
    OBVIOUS
  <2>1. m \in Nat /\ m <= posted[e] /\ m # n
    BY <1>1, <1>2 DEF IdsOK
  <2> QED BY <1>3, <2>1
<1>6. CASE kind = "data"
  <2>1. answered' = [answered EXCEPT ![e] = @ \cup {n}]
    BY <1>6 DEF Answer
  <2>2. [d \in Endpoint |-> Unread(d)]' = [[d \in Endpoint |-> Unread(d)] EXCEPT ![e] = @ \cup {n}]
    <3>1. ASSUME NEW d \in Endpoint, d # e PROVE Unread(d)' = Unread(d)
      BY <1>1, <2>1, <3>1 DEF Unread
    <3>2. Unread(e)' = Unread(e) \cup {n}
      BY <1>1, <1>4, <2>1 DEF Unread
    <3> QED BY <3>1, <3>2
  <2> QED BY <1>1, <1>4, <1>5, <2>2 DEF Sweep!Arrives, Unread
<1>7. CASE kind # "data"
  BY <1>1, <1>7 DEF Answer, Sweep!vars, Unread
<1> QED BY <1>6, <1>7

\* The transfers that stay armed across timeouts and the drain on top of them are invisible:
\* every step of them is a step of the sweep, or changes nothing that the sweep shows.
THEOREM SweepImplemented == Spec => ImplementsSweep
<1>1. Init => Sweep!Init
  <2> SUFFICES ASSUME Init PROVE Sweep!Init
    OBVIOUS
  <2>1. \A e \in Endpoint : Unread(e) = {}
    BY DEF Init, All, Unread
  <2> QED BY <2>1 DEF Init, All, Sweep!Init, Sweep!Endpoint, Endpoint
<1>2. Inv /\ [Next]_vars => [Sweep!Next]_(Sweep!vars)
  <2> SUFFICES ASSUME Inv, [Next]_vars PROVE Sweep!Next \/ UNCHANGED Sweep!vars
    OBVIOUS
  <2>1. CASE PostFails \/ WaitFails \/ FetchFails \/ (Fetches /\ ~Good(Head(reports[idx])))
    BY <2>1, FailedReadSweeps DEF Sweep!Next
  <2>2. CASE Fetches /\ Good(Head(reports[idx]))
    BY <2>2 DEF Fetches, ReadSucceeds, Taken, sweep, Sweep!vars, Unread
  <2>3. CASE StartsSweep
    BY <2>3 DEF StartsSweep, usbhs, code, Sweep!Starts, Sweep!Next, Unread
  <2>4. CASE AlreadyArmed \/ Posts \/ Stops \/ Closes \/ Stop \/ Closed \/ UNCHANGED vars
    BY <2>4 DEF AlreadyArmed, Posts, Stops, Closes, Stop, Closed, vars, usbhs, code, sweep, Sweep!vars, Unread
  <2>5. CASE Device
    BY <2>5, AnswerArrives DEF Device, Sweep!Next, Sweep!Endpoint, Endpoint
  <2> QED BY <2>1, <2>2, <2>3, <2>4, <2>5 DEF Next, Thread
<1> QED BY <1>1, <1>2, Invariance, PTL DEF Spec, ImplementsSweep, Sweep!Spec

=============================================================================
