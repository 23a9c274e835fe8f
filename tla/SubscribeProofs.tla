--------------------------- MODULE SubscribeProofs --------------------------
(***************************************************************************)
(* The safety properties of Subscribe, that it implements                  *)
(* SubscriptionContract, and where track aliases lead, for any set of      *)
(* requests, from SubscribeInvariant.                                      *)
(***************************************************************************)
EXTENDS SubscribeInvariant

\* The safety theorems

LEMMA InvIsSafe == SubscribeInv => AtMostOneAnswer /\ Agreement /\ EntriesHaveOwners
<1> SUFFICES ASSUME SubscribeInv PROVE AtMostOneAnswer /\ Agreement /\ EntriesHaveOwners
  OBVIOUS
<1>1. \A r \in Requests : RequestInv(r) /\ call[r] \in CallStates
  BY DEF SubscribeInv, TypeOK
<1>2. AtMostOneAnswer
  <2> SUFFICES ASSUME NEW r \in Requests
               PROVE  LET underWay == {i \in 1..Len(toSub) : toSub[i].type \in Answers /\ toSub[i].id = r}
                      IN  /\ \A i, j \in underWay : i = j
                          /\ response[r] # "none" => underWay = {}
                          /\ call[r] \in {"idle", "registered", "unsent", "established", "erring", "rejected"}
                             => underWay = {} /\ response[r] = "none"
    BY DEF AtMostOneAnswer
  <2> DEFINE underWay == {i \in 1..Len(toSub) : toSub[i].type \in Answers /\ toSub[i].id = r}
  <2>1. ~Has(toSub, Answers, r) => underWay = {}
    BY DEF Has, Is
  <2>2. \A i, j \in underWay : i = j
    BY <1>1 DEF RequestInv, StreamInv, Once, Is
  <2> HIDE DEF underWay
  <2>4. response[r] # "none" => ~Has(toSub, Answers, r)
    BY Zenon, <1>1 DEF RequestInv, StreamInv
  <2>5. call[r] \in {"idle", "registered", "unsent", "established", "erring", "rejected"} =>
           response[r] = "none" /\ ~Has(toSub, Answers, r)
    <3>1. RequestInv(r)
      BY <1>1
    <3>2. Has(toSub, Answers, r) => Has(toSub, {"SUBSCRIBE_OK"}, r) \/ Has(toSub, {"SUBSCRIBE_ERROR"}, r)
      BY DEF Has, Is, Answers
    <3>3. Has(toSub, Answers, r) => /\ local[r] # "none"
                                    /\ remote[r] = "pending" \/ (remote[r] = "none" /\ call[r] = "cancelled")
      BY <3>1, <3>2 DEF RequestInv, StreamInv, AcceptedStates
    <3>4. CallInv(r) /\ LocalInv(r)
      BY <3>1 DEF RequestInv
    <3>. QED  BY <3>3, <3>4 DEF CallInv, LocalInv, Unsent
  <2>. QED  BY Zenon, <2>1, <2>2, <2>4, <2>5 DEF underWay
<1>3. Agreement
  BY <1>1 DEF Agreement, RequestInv, CallInv, LocalInv, AcceptedStates
<1>4. EntriesHaveOwners
  BY <1>1 DEF EntriesHaveOwners, RequestInv, CallInv, CallStates, Stuck
<1>. QED  BY <1>2, <1>3, <1>4

\* For any set of requests: no request is answered twice, so the send to
\* responseChan in onSubscribeOk and onSubscribeError never finds it full.
THEOREM SingleAnswer == Spec => []AtMostOneAnswer
BY InvIsInvariant, InvIsSafe, PTL

\* For any set of requests: what a Subscribe call returns is what the publisher
\* decided, and a track it returns is open.
THEOREM OutcomesAgree == Spec => []Agreement
BY InvIsInvariant, InvIsSafe, PTL

\* For any set of requests: remoteTracks keeps a track without an owner only
\* after a failed write, or after a call was cancelled with its answer there.
THEOREM Ownership == Spec => []EntriesHaveOwners
BY InvIsInvariant, InvIsSafe, PTL

\* For any set of requests: onSubscribeDone ends only an open track that the
\* publisher has closed.
THEOREM DoneOrder == Spec => []DoneAfterOk
<1>1. SubscribeInv => DoneAfterOk
  BY DEF SubscribeInv
<1>. QED  BY <1>1, InvIsInvariant, PTL

\* For any set of requests: a control reader returns errUnknownRequestID only for
\* a cancelled call, a closed track or an answer that raced its handler.
THEOREM UnknownReasons == Spec => []UnknownOnlyAfterClose
<1>1. SubscribeInv => UnknownOnlyAfterClose
  BY DEF SubscribeInv
<1>. QED  BY <1>1, InvIsInvariant, PTL

-----------------------------------------------------------------------------
\* The refinement of SubscriptionContract

askedBar == [r \in Requests |-> Asked(r)]
decidedBar == [r \in Requests |-> Decided(r)]

\* The mapping, value by value.
AskedTable(r) ==
    /\ call[r] = "idle" => Asked(r) = "idle"
    /\ call[r] \in {"registered", "waiting"} => Asked(r) = "asking"
    /\ call[r] = "established" => Asked(r) = "established"
    /\ call[r] \in {"erring", "rejected"} => Asked(r) = "refused"
    /\ call[r] \in {"cancelling", "cancelled", "unsent"} => Asked(r) = "abandoned"
DecidedTable(r) ==
    /\ local[r] \in {"none", "pending"} => Decided(r) = "open"
    /\ local[r] = "open" => Decided(r) = "accepted"
    /\ local[r] = "rejected" => Decided(r) = "refused"
    /\ local[r] = "closed" => Decided(r) = "ended"

LEMMA Tables ==
    ASSUME NEW r
    PROVE  AskedTable(r) /\ AskedTable(r)' /\ DecidedTable(r) /\ DecidedTable(r)'
<1>1. AskedTable(r) /\ DecidedTable(r)
  BY DEF AskedTable, DecidedTable, Asked, Decided
<1>2. AskedTable(r)' /\ DecidedTable(r)'
  BY DEF AskedTable, DecidedTable, Asked, Decided
<1>. QED  BY <1>1, <1>2

\* A step that moves one request moves one value of the mapping.
LEMMA MapMoves ==
    ASSUME NEW s \in Requests
    PROVE  /\ (\A x \in Requests : x # s => call'[x] = call[x])
              => askedBar' = [askedBar EXCEPT ![s] = Asked(s)']
           /\ (\A x \in Requests : x # s => local'[x] = local[x])
              => decidedBar' = [decidedBar EXCEPT ![s] = Decided(s)']
           /\ UNCHANGED call => askedBar' = askedBar
           /\ UNCHANGED local => decidedBar' = decidedBar
<1>1. ASSUME NEW x PROVE /\ call'[x] = call[x] => Asked(x)' = Asked(x)
                         /\ local'[x] = local[x] => Decided(x)' = Decided(x)
  BY Zenon DEF Asked, Decided
<1>. QED  BY Zenon, <1>1 DEF askedBar, decidedBar

LEMMA CallSimulates ==
    ASSUME TypeOK, NEW s \in Requests, RequestInv(s), CallStep(s), UNCHANGED <<local, remoteDone>>
    PROVE  [Contract!Next]_(Contract!cvars)
<1>1. PICK c \in CallStates :
        /\ call' = [call EXCEPT ![s] = c]
        /\ \/ call[s] = "idle" /\ c = "registered"
           \/ call[s] = "registered" /\ c \in {"waiting", "unsent"}
           \/ call[s] = "waiting" /\ c = "established" /\ response[s] = "nil"
           \/ call[s] = "waiting" /\ c = "erring" /\ response[s] = "error"
           \/ call[s] = "waiting" /\ c = "cancelling"
           \/ call[s] = "cancelling" /\ c = "cancelled"
           \/ call[s] = "erring" /\ c = "rejected"
  BY Zenon DEF CallStep
<1>2. call'[s] = c /\ \A x \in Requests : x # s => call'[x] = call[x]
  BY <1>1 DEF TypeOK
<1>3. decidedBar' = decidedBar /\ askedBar' = [askedBar EXCEPT ![s] = Asked(s)']
  BY <1>2, MapMoves
<1>4. askedBar[s] = Asked(s) /\ decidedBar[s] = Decided(s)
  BY Zenon DEF askedBar, decidedBar
<1>5. CASE Asked(s)' = Asked(s)
  <2>1. askedBar' = askedBar
    BY Zenon, <1>3, <1>4, <1>5 DEF askedBar
  <2>. QED  BY Zenon, <1>3, <2>1 DEF Contract!cvars, askedBar, decidedBar
<1>6. CASE Asked(s) = "idle" /\ Asked(s)' = "asking"
  <2>1. Contract!Ask(s)
    BY Zenon, <1>3, <1>4, <1>6 DEF Contract!Ask, askedBar, decidedBar
  <2>. QED  BY Zenon, <2>1 DEF Contract!Next
<1>7. CASE /\ Asked(s) = "asking"
           /\ \/ Asked(s)' = "abandoned"
              \/ Asked(s)' = "established" /\ Decided(s) \in {"accepted", "ended"}
              \/ Asked(s)' = "refused" /\ Decided(s) = "refused"
  <2>1. Contract!Learn(s)
    BY Zenon, <1>3, <1>4, <1>7 DEF Contract!Learn, askedBar, decidedBar
  <2>. QED  BY Zenon, <2>1 DEF Contract!Next
<1>8. /\ response[s] = "nil" => Decided(s) \in {"accepted", "ended"}
      /\ response[s] = "error" => Decided(s) = "refused"
  BY Tables DEF RequestInv, CallInv, LocalInv, AcceptedStates, DecidedTable
<1>9. AskedTable(s) /\ AskedTable(s)'
  BY Tables
<1>. QED  BY <1>1, <1>2, <1>5, <1>6, <1>7, <1>8, <1>9 DEF AskedTable

LEMMA LocalSimulates ==
    ASSUME TypeOK, NEW s \in Requests, RequestInv(s), LocalStep(s), UNCHANGED <<call, remoteDone>>
    PROVE  [Contract!Next]_(Contract!cvars)
<1>1. /\ \A x \in Requests : x # s => local'[x] = local[x]
      /\ \/ local[s] = "none" /\ local'[s] = "pending"
         \/ local[s] = "pending" /\ local'[s] = "open"
         \/ local[s] = "pending" /\ local'[s] = "rejected"
         \/ local[s] = "open" /\ local'[s] = "closed"
  BY DEF LocalStep, TypeOK
<1>2. askedBar' = askedBar /\ decidedBar' = [decidedBar EXCEPT ![s] = Decided(s)']
  BY <1>1, MapMoves
<1>3. askedBar[s] = Asked(s) /\ decidedBar[s] = Decided(s)
  BY DEF askedBar, decidedBar
<1>4. CASE Decided(s)' = Decided(s)
  <2>1. decidedBar' = decidedBar
    BY Zenon, <1>2, <1>3, <1>4 DEF decidedBar
  <2>. QED  BY Zenon, <1>2, <2>1 DEF Contract!cvars, askedBar, decidedBar
<1>5. CASE /\ Asked(s) \in {"asking", "abandoned"} /\ Decided(s) = "open"
           /\ Decided(s)' \in {"accepted", "refused"}
  <2>1. Contract!Decide(s)
    BY Zenon, <1>2, <1>3, <1>5 DEF Contract!Decide, askedBar, decidedBar
  <2>. QED  BY Zenon, <2>1 DEF Contract!Next
<1>6. CASE Decided(s) = "accepted" /\ Decided(s)' = "ended"
  <2>1. Contract!End(s)
    BY Zenon, <1>2, <1>3, <1>6 DEF Contract!End, askedBar, decidedBar
  <2>. QED  BY Zenon, <2>1 DEF Contract!Next
<1>7. local[s] = "pending" => Asked(s) \in {"asking", "abandoned"}
  <2>1. call[s] \in CallStates
    BY DEF TypeOK
  <2>. QED  BY <2>1, Tables DEF RequestInv, CallInv, LocalInv, CallStates, Unsent, AcceptedStates, AskedTable
<1>8. DecidedTable(s) /\ DecidedTable(s)'
  BY Tables
<1>. QED  BY <1>1, <1>4, <1>5, <1>6, <1>7, <1>8 DEF DecidedTable

LEMMA DoneSimulates ==
    ASSUME TypeOK, NEW s \in Requests, DoneStep(s), UNCHANGED <<call, local>>
    PROVE  [Contract!Next]_(Contract!cvars)
<1>1. askedBar' = askedBar /\ decidedBar' = decidedBar
  BY MapMoves
<1>2. decidedBar[s] = "ended"
  BY Tables DEF DoneStep, DecidedTable, decidedBar
<1>3. CASE remoteDone[s]
  <2>1. remoteDone' = remoteDone
    BY Zenon, <1>3 DEF DoneStep, TypeOK
  <2>. QED  BY Zenon, <1>1, <2>1 DEF Contract!cvars, askedBar, decidedBar
<1>4. CASE ~remoteDone[s]
  <2>1. Contract!SeeEnd(s)
    BY Zenon, <1>1, <1>2, <1>4 DEF Contract!SeeEnd, DoneStep, askedBar, decidedBar
  <2>. QED  BY Zenon, <2>1 DEF Contract!Next
<1>. QED  BY <1>3, <1>4

\* Subscriptions implement the contract, for any set of requests: every step of
\* the calls, maps, channels and readers is a step of SubscriptionContract or
\* changes nothing that it speaks of.
THEOREM Refinement == Spec => ImplementsContract
<1>1. Init => Contract!Init
  <2> SUFFICES ASSUME Init PROVE Contract!Init
    OBVIOUS
  <2>1. \A r \in Requests : Asked(r) = "idle" /\ Decided(r) = "open"
    BY Tables DEF Init, AskedTable, DecidedTable
  <2>. QED  BY Zenon, <2>1 DEF Contract!Init, Init
<1>2. SubscribeInv /\ [Next]_vars => [Contract!Next]_(Contract!cvars)
  <2> SUFFICES ASSUME SubscribeInv, [Next]_vars PROVE [Contract!Next]_(Contract!cvars)
    OBVIOUS
  <2>1. TypeOK /\ \A r \in Requests : RequestInv(r)
    BY DEF SubscribeInv
  <2>2. CASE UNCHANGED <<call, local, remoteDone>>
    <3>1. \A x : Asked(x)' = Asked(x) /\ Decided(x)' = Decided(x)
      BY Zenon, <2>2 DEF Asked, Decided
    <3>. QED  BY Zenon, <2>2, <3>1 DEF Contract!cvars
  <2>3. StepKind
    BY <2>1, StepKinds
  <2>. QED  BY Zenon, <2>1, <2>2, <2>3, CallSimulates, LocalSimulates, DoneSimulates DEF StepKind
<1>. QED  BY <1>1, <1>2, InvIsInvariant, PTL DEF Spec, ImplementsContract, Contract!Spec

-----------------------------------------------------------------------------
\* Where aliases lead

\* Of the SUBSCRIBE_OK messages in q the first is that of request r.
FirstOk(q, r) ==
    \E i \in 1..Len(q) : /\ q[i].type = "SUBSCRIBE_OK" /\ q[i].id = r
                         /\ \A j \in 1..i-1 : q[j].type # "SUBSCRIBE_OK"

\* A local track keeps the alias it got from the sequence, and SUBSCRIBE_OK
\* carries alias 0.
AliasInv ==
    /\ \A r \in Requests : local[r] # "none" => localAlias[r] < nextAlias
    /\ \A a \in DOMAIN aliasTo : a = 0 /\ local[aliasTo[a]] \in AcceptedStates
    /\ \A k \in 1..Len(toSub) : toSub[k].alias = 0

\* Alias 0 leads to request r, or will when the first SUBSCRIBE_OK is read.
Leads(r) ==
    \/ 0 \in DOMAIN aliasTo /\ aliasTo[0] = r
    \/ DOMAIN aliasTo = {} /\ (reader["subscriber"] = "reading" => FirstOk(toSub, r))

\* With handlers that answer before they return, that is the first subscription,
\* if it was accepted.
FirstInv(r) ==
    localAlias[r] = 0 =>
       /\ local[r] = "pending" => \A q \in Requests : local[q] \notin AcceptedStates
       /\ local[r] \in AcceptedStates => Leads(r)
RouteInv ==
    /\ \A r, q \in handling : r = q
    /\ \A r \in Requests : local[r] = "pending" => r \in handling
    /\ \A r \in Requests : FirstInv(r)

\* Once a track is open alias 0 is installed, and an alias leads to an open track.
InstalledInv ==
    /\ \A r \in Requests : remote[r] = "open" => reader["subscriber"] # "reading" \/ 0 \in DOMAIN aliasTo
    /\ \A a \in DOMAIN aliasTo : remote[aliasTo[a]] = "open"

LEMMA FirstAppended ==
    ASSUME NEW S, NEW q \in Seq(S), NEW m \in S, NEW r
    PROVE  /\ FirstOk(q, r) => FirstOk(Append(q, m), r)
           /\ m.type = "SUBSCRIBE_OK" /\ m.id = r /\ (\A k \in 1..Len(q) : q[k].type # "SUBSCRIBE_OK")
                 => FirstOk(Append(q, m), r)
<1> DEFINE p == Append(q, m)
<1>1. /\ Len(q) \in Nat /\ Len(p) = Len(q) + 1 /\ p[Len(q) + 1] = m
      /\ \A i \in 1..Len(q) : p[i] = q[i]
  BY Appended
<1> HIDE DEF p
<1>2. ASSUME FirstOk(q, r) PROVE FirstOk(p, r)
  <2>1. PICK i \in 1..Len(q) : /\ q[i].type = "SUBSCRIBE_OK" /\ q[i].id = r
                               /\ \A j \in 1..i-1 : q[j].type # "SUBSCRIBE_OK"
    BY <1>2 DEF FirstOk
  <2>2. i \in 1..Len(p) /\ p[i] = q[i] /\ \A j \in 1..i-1 : p[j] = q[j]
    BY <1>1
  <2>. QED  BY <2>1, <2>2 DEF FirstOk
<1>3. ASSUME m.type = "SUBSCRIBE_OK", m.id = r, \A k \in 1..Len(q) : q[k].type # "SUBSCRIBE_OK"
      PROVE  FirstOk(p, r)
  <2>1. /\ Len(q) + 1 \in 1..Len(p)
        /\ \A j \in 1..Len(q) + 1 - 1 : p[j].type # "SUBSCRIBE_OK"
    BY <1>1, <1>3
  <2>. QED  BY <1>1, <1>3, <2>1 DEF FirstOk
<1>. QED  BY <1>2, <1>3 DEF p

LEMMA FirstTaken ==
    ASSUME NEW S, NEW q \in Seq(S), q # <<>>, NEW r, FirstOk(q, r)
    PROVE  /\ Head(q).type = "SUBSCRIBE_OK" => Head(q).id = r
           /\ Head(q).type # "SUBSCRIBE_OK" => FirstOk(Tail(q), r)
<1>1. PICK i \in 1..Len(q) : /\ q[i].type = "SUBSCRIBE_OK" /\ q[i].id = r
                             /\ \A j \in 1..i-1 : q[j].type # "SUBSCRIBE_OK"
  BY DEF FirstOk
<1>2. /\ Head(q) = q[1] /\ Len(q) \in Nat \ {0} /\ Len(Tail(q)) = Len(q) - 1
      /\ \A j \in 1..Len(Tail(q)) : j + 1 \in 1..Len(q) /\ Tail(q)[j] = q[j + 1]
  BY Taken
<1>3. CASE i = 1
  BY <1>1, <1>2, <1>3
<1>4. CASE i # 1
  <2>1. Head(q).type # "SUBSCRIBE_OK"
    BY <1>1, <1>2, <1>4
  <2>2. i - 1 \in 1..Len(Tail(q)) /\ Tail(q)[i - 1] = q[i]
    BY <1>2, <1>4
  <2>3. \A j \in 1..(i - 1) - 1 : Tail(q)[j].type # "SUBSCRIBE_OK"
    BY <1>1, <1>2
  <2>. QED  BY <1>1, <2>1, <2>2, <2>3 DEF FirstOk
<1>. QED  BY <1>3, <1>4

\* What the steps of Subscribe do to the tracks, aliases and answers.
StillReading == reader'["subscriber"] = "reading" => reader["subscriber"] = "reading"
Silent == UNCHANGED <<local, localAlias, nextAlias, aliasTo, toSub>> /\ StillReading
Begins(s) ==
    /\ local[s] = "none" /\ local' = [local EXCEPT ![s] = "pending"]
    /\ localAlias' = [localAlias EXCEPT ![s] = nextAlias] /\ nextAlias' = nextAlias + 1
    /\ handling = {} /\ handling' = {s}
    /\ UNCHANGED <<aliasTo, toSub, reader>>
Speaks(s, t) ==
    /\ \/ t = "SUBSCRIBE_OK" /\ local[s] = "pending" /\ local' = [local EXCEPT ![s] = "open"]
       \/ t = "SUBSCRIBE_ERROR" /\ local[s] = "pending" /\ local' = [local EXCEPT ![s] = "rejected"]
       \/ t = "SUBSCRIBE_DONE" /\ local[s] = "open" /\ local' = [local EXCEPT ![s] = "closed"]
    /\ ToSub(t, s, 0)
    /\ UNCHANGED <<localAlias, nextAlias, aliasTo>> /\ StillReading
Hears ==
    /\ reader["subscriber"] = "reading" /\ toSub # <<>> /\ toSub' = Tail(toSub)
    /\ \/ Head(toSub).type # "SUBSCRIBE_OK" /\ UNCHANGED aliasTo
       \/ Head(toSub).type = "SUBSCRIBE_OK" /\ reader'["subscriber"] # "reading" /\ UNCHANGED aliasTo
       \/ /\ Head(toSub).type = "SUBSCRIBE_OK" /\ Head(toSub).alias \notin DOMAIN aliasTo
          /\ SetAlias(Head(toSub).id, Head(toSub).alias)
    /\ UNCHANGED <<local, localAlias, nextAlias, handling>>

LEMMA AliasSteps ==
    ASSUME TypeOK, \A x \in Requests : RequestInv(x), [Next]_vars
    PROVE  \/ Silent
           \/ Hears
           \/ \E s \in Requests : Begins(s)
           \/ \E s \in Requests : \E t \in Answers \cup {"SUBSCRIBE_DONE"} : Speaks(s, t)
<1>0. reader \in [{"subscriber", "publisher"} -> {"reading"} \cup Errors]
  BY DEF TypeOK
<1>1. CASE OnSubscribeOk
  <2>1. SubReads("SUBSCRIBE_OK") /\ UNCHANGED pubVars
    BY <1>1 DEF OnSubscribeOk
  <2>2. \A e \in Errors : Dies("subscriber", e) => reader'["subscriber"] # "reading"
    BY <1>0 DEF Dies, Errors
  <2>3. "errUnknownRequestID" \in Errors /\ "errDuplicateTrackAlias" \in Errors
    BY DEF Errors
  <2>4. \/ reader'["subscriber"] # "reading" /\ UNCHANGED aliasTo
        \/ Head(toSub).alias \notin DOMAIN aliasTo /\ SetAlias(Head(toSub).id, Head(toSub).alias)
    BY Zenon, <1>1, <2>2, <2>3 DEF OnSubscribeOk
  <2>. QED  BY Zenon, <2>1, <2>4 DEF Hears, SubReads, pubVars
<1>2. CASE OnSubscribeError \/ OnSubscribeDone
  <2>1. SubReads("SUBSCRIBE_ERROR") \/ SubReads("SUBSCRIBE_DONE")
    BY Zenon, <1>2 DEF OnSubscribeError, OnSubscribeDone
  <2>2. UNCHANGED <<aliasTo, pubVars>>
    BY Zenon, <1>2 DEF OnSubscribeError, OnSubscribeDone
  <2>3. reader["subscriber"] = "reading" /\ toSub # <<>> /\ toSub' = Tail(toSub) /\ Head(toSub).type # "SUBSCRIBE_OK"
    BY <2>1 DEF SubReads
  <2>. QED  BY Zenon, <2>2, <2>3 DEF Hears, pubVars
<1>3. CASE OnSubscribe
  <2> DEFINE s == Head(toPub).id
  <2>1. s \in Requests
    BY Zenon, <1>3, PubRead DEF OnSubscribe
  <2>2. local[s] = "none"
    BY <1>3, <2>1, SubscribeIsNew
  <2>3. handling = {} /\ UNCHANGED aliasTo
    BY Zenon, <1>3 DEF OnSubscribe, PubReads, subVars
  <2>4. CASE Head(toPub).ns = "invalid"
    <3>1. UNCHANGED <<local, localAlias, nextAlias, toSub>> /\ Dies("publisher", "errInvalidNamespaceLength")
      BY Zenon, <1>3, <2>4 DEF OnSubscribe
    <3>2. reader'["subscriber"] = reader["subscriber"]
      BY <1>0, <3>1 DEF Dies
    <3>. QED  BY <2>3, <3>1, <3>2 DEF Silent, StillReading
  <2>5. CASE Head(toPub).ns # "invalid"
    <3>1. ~Known(s)
      BY <2>2 DEF Known
    <3>2. Begins(s)
      BY Zenon, <1>3, <2>2, <2>3, <2>5, <3>1 DEF OnSubscribe, Begins, SequenceNext
    <3>. QED  BY <2>1, <3>2
  <2>. QED  BY <2>4, <2>5
<1>4. ASSUME NEW s \in Requests, Accept(s) \/ Reject(s) \/ SubscriptionDone(s)
      PROVE  \E t \in Answers \cup {"SUBSCRIBE_DONE"} : Speaks(s, t)
  <2>1. closing[s] = "cancelled" => local[s] = "open" /\ Known(s)
    BY DEF RequestInv, LocalInv, Known
  <2>2. Speaks(s, "SUBSCRIBE_OK") \/ Speaks(s, "SUBSCRIBE_ERROR") \/ Speaks(s, "SUBSCRIBE_DONE")
    BY Zenon, <1>4, <2>1 DEF Accept, Reject, RejectSubscription, SubscriptionDone, Speaks, StillReading, subVars
  <2>. QED  BY <2>2 DEF Answers
<1>5. ASSUME NEW s \in Requests, RejectUnhandled(s)
      PROVE  Silent \/ \E t \in Answers \cup {"SUBSCRIBE_DONE"} : Speaks(s, t)
  <2>1. CASE local[s] = "pending"
    <3>1. Speaks(s, "SUBSCRIBE_ERROR")
      BY Zenon, <1>5, <2>1 DEF RejectUnhandled, RejectSubscription, Speaks, StillReading, subVars
    <3>. QED  BY <3>1 DEF Answers
  <2>2. CASE local[s] # "pending"
    <3>1. UNCHANGED <<local, localAlias, nextAlias, aliasTo, toSub>> /\ Dies("publisher", "errUnknownRequestID")
      BY Zenon, <1>5, <2>2 DEF RejectUnhandled, subVars
    <3>2. reader'["subscriber"] = reader["subscriber"]
      BY <1>0, <3>1 DEF Dies
    <3>. QED  BY <3>1, <3>2 DEF Silent, StillReading
  <2>. QED  BY <2>1, <2>2
<1>6. CASE OnUnsubscribe \/ OnSubscribeUpdate
  <2>1. /\ UNCHANGED <<local, localAlias, nextAlias, aliasTo, toSub>>
        /\ UNCHANGED reader \/ Dies("publisher", "errUnknownRequestID")
    BY Zenon, <1>6 DEF OnUnsubscribe, OnSubscribeUpdate, subVars, pubVars
  <2>2. reader'["subscriber"] = reader["subscriber"]
    BY <1>0, <2>1 DEF Dies
  <2>. QED  BY <2>1, <2>2 DEF Silent, StillReading
<1>7. ASSUME NEW s \in Requests,
             \/ SubscribeCall(s) \/ SubscribeCtxDone(s) \/ Unsubscribe(s) \/ UpdateSubscription(s) \/ Answer(s)
             \/ SubscribeResponse(s) \/ SubscribeReject(s) \/ HandlerReturn(s) \/ CloseCancel(s)
             \/ \E ns \in Namespaces : SubscribeWrite(s, ns)
      PROVE  Silent
  BY Zenon, <1>7 DEF SubscribeCall, SubscribeCtxDone, Unsubscribe, UpdateSubscription, Answer, SubscribeResponse,
     SubscribeReject, HandlerReturn, CloseCancel, SubscribeWrite, subVars, pubVars, Silent, StillReading
<1>8. UNCHANGED vars => Silent
  BY DEF vars, pubVars, subVars, Silent, StillReading
<1>. QED  BY Zenon, <1>1, <1>2, <1>3, <1>4, <1>5, <1>6, <1>7, <1>8 DEF Next, SubReader, PubReader, Proceeds, Chooses

\* SUBSCRIBE_OK on the control stream is that of an accepted subscription.
LEMMA OkAccepted ==
    ASSUME TypeOK, \A x \in Requests : RequestInv(x), NEW k \in 1..Len(toSub), toSub[k].type = "SUBSCRIBE_OK"
    PROVE  toSub[k].id \in Requests /\ local[toSub[k].id] \in AcceptedStates
<1>1. toSub[k] \in SubMsg
  BY ElementOfSeq DEF TypeOK
<1>2. toSub[k].id \in Requests
  BY <1>1 DEF SubMsg
<1>3. Has(toSub, {"SUBSCRIBE_OK"}, toSub[k].id)
  BY DEF Has, Is
<1>. QED  BY Zenon, <1>2, <1>3 DEF RequestInv, StreamInv

\* A local track stays, with its alias; one that is accepted stays accepted.
LEMMA AliasStays ==
    ASSUME TypeOK, \A x \in Requests : RequestInv(x), [Next]_vars, NEW r \in Requests, local[r] # "none"
    PROVE  /\ local'[r] # "none" /\ localAlias'[r] = localAlias[r]
           /\ local[r] \in AcceptedStates => local'[r] \in AcceptedStates
<1>1. local \in [Requests -> {"none", "pending", "open", "rejected", "closed"}] /\ localAlias \in [Requests -> Nat]
  BY DEF TypeOK
<1>2. CASE Silent \/ Hears
  BY <1>2 DEF Silent, Hears
<1>3. ASSUME NEW s \in Requests, Begins(s) PROVE local'[r] = local[r] /\ localAlias'[r] = localAlias[r]
  BY <1>1, <1>3 DEF Begins
<1>4. ASSUME NEW s \in Requests, NEW t, Speaks(s, t)
      PROVE  /\ local'[r] # "none" /\ localAlias'[r] = localAlias[r]
             /\ local[r] \in AcceptedStates => local'[r] \in AcceptedStates
  BY <1>1, <1>4 DEF Speaks, AcceptedStates
<1>. QED  BY <1>2, <1>3, <1>4, AliasSteps

LEMMA AliasInductive ==
    ASSUME TypeOK, \A x \in Requests : RequestInv(x), AliasInv, [Next]_vars
    PROVE  AliasInv'
<1>0. /\ local \in [Requests -> {"none", "pending", "open", "rejected", "closed"}]
      /\ localAlias \in [Requests -> Nat] /\ nextAlias \in Nat /\ toSub \in Seq(SubMsg)
      /\ \A a \in DOMAIN aliasTo : aliasTo[a] \in Requests
  BY DEF TypeOK
<1>1. ASSUME NEW r \in Requests, local[r] # "none" PROVE localAlias'[r] = localAlias[r] /\ localAlias'[r] < nextAlias
  BY <1>1, AliasStays DEF AliasInv
<1>2. ASSUME NEW a \in DOMAIN aliasTo PROVE a = 0 /\ local'[aliasTo[a]] \in AcceptedStates
  <2>1. aliasTo[a] \in Requests /\ local[aliasTo[a]] \in AcceptedStates /\ local[aliasTo[a]] # "none" /\ a = 0
    BY <1>0 DEF AliasInv, AcceptedStates
  <2>. QED  BY <2>1, AliasStays
<1>3. \A k \in 1..Len(toSub) : toSub[k].alias = 0
  BY DEF AliasInv
<1>4. CASE Silent
  BY <1>1, <1>2, <1>3, <1>4 DEF AliasInv, Silent
<1>5. ASSUME NEW s \in Requests, Begins(s) PROVE AliasInv'
  <2>1. UNCHANGED <<aliasTo, toSub>>
    BY <1>5 DEF Begins
  <2>2. ASSUME NEW r \in Requests, local'[r] # "none" PROVE localAlias'[r] < nextAlias'
    BY <1>0, <1>1, <1>5, <2>2 DEF Begins
  <2>. QED  BY <1>2, <1>3, <2>1, <2>2 DEF AliasInv
<1>6. ASSUME NEW s \in Requests, NEW t \in Answers \cup {"SUBSCRIBE_DONE"}, Speaks(s, t) PROVE AliasInv'
  <2> DEFINE m == [type |-> t, id |-> s, alias |-> 0]
  <2>1. m \in SubMsg /\ m.alias = 0 /\ toSub' = Append(toSub, m)
    BY <1>6 DEF SubMsg, Speaks, ToSub
  <2> HIDE DEF m
  <2>2. \A k \in 1..Len(toSub') : toSub'[k].alias = 0
    BY <1>0, <1>3, <2>1, Appended
  <2>3. aliasTo' = aliasTo /\ nextAlias' = nextAlias /\ \A r \in Requests : local'[r] # "none" => local[r] # "none"
    BY <1>0, <1>6 DEF Speaks
  <2>. QED  BY <1>1, <1>2, <2>2, <2>3 DEF AliasInv
<1>7. CASE Hears
  <2>1. UNCHANGED <<local, localAlias, nextAlias>> /\ toSub # <<>> /\ toSub' = Tail(toSub)
    BY <1>7 DEF Hears
  <2>2. \A k \in 1..Len(toSub') : toSub'[k].alias = 0
    BY <1>0, <1>3, <2>1, Taken
  <2>3. CASE aliasTo' = aliasTo
    BY <1>1, <1>2, <2>1, <2>2, <2>3 DEF AliasInv
  <2>4. CASE Head(toSub).type = "SUBSCRIBE_OK" /\ SetAlias(Head(toSub).id, Head(toSub).alias)
    <3>1. 1 \in 1..Len(toSub) /\ Head(toSub) = toSub[1]
      BY <1>0, <2>1, Taken
    <3>2. toSub[1].type = "SUBSCRIBE_OK" /\ toSub[1].alias = 0
      BY <1>3, <2>4, <3>1
    <3>3. local[Head(toSub).id] \in AcceptedStates
      BY <3>1, <3>2, OkAccepted
    <3>4. \A a \in DOMAIN aliasTo' : a = 0 /\ local'[aliasTo'[a]] \in AcceptedStates
      BY <1>2, <2>1, <2>4, <3>1, <3>2, <3>3 DEF SetAlias
    <3>. QED  BY <1>1, <2>1, <2>2, <3>4 DEF AliasInv
  <2>. QED  BY <1>7, <2>3, <2>4 DEF Hears
<1>. QED  BY <1>4, <1>5, <1>6, <1>7, AliasSteps

\* What a step does to the handler that runs on the control reader.
HandlerEnds(s) ==
    /\ s \in handling /\ handling' = {}
    /\ (s \in answering /\ UNCHANGED <<local, answering>>) \/ s \in unhandled

LEMMA HandlingMoves ==
    ASSUME TypeOK, \A x \in Requests : RequestInv(x), [Next]_vars
    PROVE  \/ handling' = handling
           \/ \E s \in Requests : Begins(s)
           \/ \E s \in Requests : HandlerEnds(s)
<1>1. CASE OnSubscribe
  <2>1. CASE handling' = handling
    BY <2>1
  <2>2. CASE handling' # handling
    <3>1. Head(toPub).ns # "invalid" /\ ~Known(Head(toPub).id)
      BY Zenon, <1>1, <2>2 DEF OnSubscribe
    <3>2. Head(toPub).id \in Requests
      BY Zenon, <1>1, PubRead DEF OnSubscribe
    <3>3. local[Head(toPub).id] = "none"
      BY <1>1, <3>2, SubscribeIsNew
    <3>4. Begins(Head(toPub).id)
      BY Zenon, <1>1, <3>1, <3>3 DEF OnSubscribe, PubReads, Begins, SequenceNext, subVars
    <3>. QED  BY <3>2, <3>4
  <2>. QED  BY <2>1, <2>2
<1>2. ASSUME NEW s \in Requests, HandlerReturn(s) \/ RejectUnhandled(s) PROVE handling' = handling \/ HandlerEnds(s)
  BY Zenon, <1>2 DEF HandlerReturn, RejectUnhandled, HandlerEnds
<1>3. CASE OnSubscribeOk \/ OnSubscribeError \/ OnSubscribeDone \/ OnUnsubscribe \/ OnSubscribeUpdate
  BY Zenon, <1>3 DEF OnSubscribeOk, OnSubscribeError, OnSubscribeDone, OnUnsubscribe, OnSubscribeUpdate, pubVars
<1>4. ASSUME NEW s \in Requests,
             \/ SubscribeCall(s) \/ SubscribeCtxDone(s) \/ Unsubscribe(s) \/ UpdateSubscription(s) \/ Answer(s)
             \/ SubscribeResponse(s) \/ SubscribeReject(s) \/ CloseCancel(s) \/ Accept(s) \/ Reject(s)
             \/ SubscriptionDone(s) \/ \E ns \in Namespaces : SubscribeWrite(s, ns)
      PROVE  handling' = handling
  BY Zenon, <1>4 DEF SubscribeCall, SubscribeCtxDone, Unsubscribe, UpdateSubscription, Answer, SubscribeResponse,
     SubscribeReject, CloseCancel, Accept, Reject, SubscriptionDone, SubscribeWrite, pubVars
<1>5. UNCHANGED vars => handling' = handling
  BY DEF vars, pubVars
<1>. QED  BY Zenon, <1>1, <1>2, <1>3, <1>4, <1>5 DEF Next, SubReader, PubReader, Proceeds, Chooses

\* Where a local track comes from.
LEMMA LocalMoves ==
    ASSUME TypeOK, \A x \in Requests : RequestInv(x), [Next]_vars, NEW r \in Requests
    PROVE  /\ local'[r] = "pending" => local[r] = "pending" \/ Begins(r)
           /\ local'[r] \in AcceptedStates => local[r] \in AcceptedStates \/ Speaks(r, "SUBSCRIBE_OK")
<1>1. local \in [Requests -> {"none", "pending", "open", "rejected", "closed"}]
  BY DEF TypeOK
<1>2. CASE Silent \/ Hears
  BY <1>2 DEF Silent, Hears
<1>3. ASSUME NEW s \in Requests, Begins(s)
      PROVE  /\ local'[r] = "pending" => local[r] = "pending" \/ Begins(r)
             /\ local'[r] \in AcceptedStates => local[r] \in AcceptedStates
  <2>1. CASE r = s
    BY <1>1, <1>3, <2>1 DEF Begins, AcceptedStates
  <2>2. CASE r # s
    BY <1>1, <1>3, <2>2 DEF Begins
  <2>. QED  BY <2>1, <2>2
<1>4. ASSUME NEW s \in Requests, NEW t, Speaks(s, t)
      PROVE  /\ local'[r] = "pending" => local[r] = "pending"
             /\ local'[r] \in AcceptedStates => local[r] \in AcceptedStates \/ Speaks(r, "SUBSCRIBE_OK")
  <2>1. CASE r = s
    <3>1. CASE t = "SUBSCRIBE_OK"
      <4>1. local[s] = "pending"
        BY <1>4, <3>1 DEF Speaks
      <4>. QED  BY <1>4, <2>1, <3>1, <4>1
    <3>2. CASE t # "SUBSCRIBE_OK"
      BY <1>1, <1>4, <2>1, <3>2 DEF Speaks, AcceptedStates
    <3>. QED  BY <3>1, <3>2
  <2>2. CASE r # s
    BY <1>1, <1>4, <2>2 DEF Speaks
  <2>. QED  BY <2>1, <2>2
<1>. QED  BY <1>2, <1>3, <1>4, AliasSteps

LEMMA LeadsStays ==
    ASSUME TypeOK, \A x \in Requests : RequestInv(x), AliasInv, [Next]_vars, NEW r \in Requests, Leads(r)
    PROVE  Leads(r)'
<1>0. toSub \in Seq(SubMsg) /\ reader \in [{"subscriber", "publisher"} -> {"reading"} \cup Errors]
  BY DEF TypeOK
<1>1. CASE Silent
  BY <1>1 DEF Silent, StillReading, Leads
<1>2. ASSUME NEW s \in Requests, Begins(s) PROVE Leads(r)'
  BY <1>2 DEF Begins, Leads
<1>3. ASSUME NEW s \in Requests, NEW t \in Answers \cup {"SUBSCRIBE_DONE"}, Speaks(s, t) PROVE Leads(r)'
  <2> DEFINE m == [type |-> t, id |-> s, alias |-> 0]
  <2>1. m \in SubMsg /\ toSub' = Append(toSub, m) /\ aliasTo' = aliasTo /\ StillReading
    BY <1>3 DEF SubMsg, Speaks, ToSub
  <2> HIDE DEF m
  <2>2. FirstOk(toSub, r) => FirstOk(toSub', r)
    BY <1>0, <2>1, FirstAppended
  <2>. QED  BY <2>1, <2>2 DEF Leads, StillReading
<1>4. CASE Hears
  <2>1. reader["subscriber"] = "reading" /\ toSub # <<>> /\ toSub' = Tail(toSub)
    BY <1>4 DEF Hears
  <2>2. 1 \in 1..Len(toSub) /\ Head(toSub) = toSub[1]
    BY <1>0, <2>1, Taken
  <2>3. Head(toSub).alias = 0
    BY <2>2 DEF AliasInv
  <2>4. CASE 0 \in DOMAIN aliasTo /\ aliasTo[0] = r
    <3>1. aliasTo' = aliasTo
      BY <1>4, <2>3, <2>4 DEF Hears
    <3>. QED  BY <2>4, <3>1 DEF Leads
  <2>5. CASE DOMAIN aliasTo = {} /\ FirstOk(toSub, r)
    <3>1. CASE Head(toSub).type # "SUBSCRIBE_OK"
      <4>1. FirstOk(toSub', r)
        BY <1>0, <2>1, <2>5, <3>1, FirstTaken
      <4>2. aliasTo' = aliasTo
        BY <1>4, <3>1 DEF Hears
      <4>. QED  BY <2>5, <4>1, <4>2 DEF Leads
    <3>2. CASE Head(toSub).type = "SUBSCRIBE_OK" /\ reader'["subscriber"] # "reading" /\ aliasTo' = aliasTo
      BY <2>5, <3>2 DEF Leads
    <3>3. CASE Head(toSub).type = "SUBSCRIBE_OK" /\ SetAlias(Head(toSub).id, Head(toSub).alias)
      <4>1. Head(toSub).id = r
        BY <1>0, <2>1, <2>5, <3>3, FirstTaken
      <4>2. SetAlias(r, 0)
        BY Zenon, <2>3, <3>3, <4>1
      <4>. QED  BY <4>2 DEF SetAlias, Leads
    <3>. QED  BY <1>4, <3>1, <3>2, <3>3 DEF Hears
  <2>. QED  BY <2>1, <2>4, <2>5 DEF Leads
<1>. QED  BY <1>1, <1>2, <1>3, <1>4, AliasSteps

LEMMA RouteInductive ==
    ASSUME TypeOK, \A x \in Requests : RequestInv(x), AliasInv, RouteInv, Synchronous, Synchronous', [Next]_vars
    PROVE  RouteInv'
<1>0. /\ local \in [Requests -> {"none", "pending", "open", "rejected", "closed"}]
      /\ localAlias \in [Requests -> Nat] /\ nextAlias \in Nat /\ handling \subseteq Requests
      /\ toSub \in Seq(SubMsg) /\ DOMAIN aliasTo \subseteq Nat /\ \A a \in DOMAIN aliasTo : aliasTo[a] \in Requests
  BY DEF TypeOK
<1>1. \A r, q \in handling' : r = q
  <2>1. \A r, q \in handling : r = q
    BY DEF RouteInv
  <2>. QED  BY <2>1, HandlingMoves DEF Begins, HandlerEnds
<1>2. ASSUME NEW r \in Requests, local'[r] = "pending" PROVE r \in handling'
  <2>1. CASE Begins(r)
    BY <2>1 DEF Begins
  <2>2. CASE local[r] = "pending"
    <3>1. r \in handling
      BY <2>2 DEF RouteInv
    <3>2. ASSUME NEW s \in Requests, HandlerEnds(s) PROVE r \in handling'
      <4>1. s = r /\ s \in answering'
        BY <3>1, <3>2 DEF RouteInv, HandlerEnds, Synchronous
      <4>. QED  BY <1>2, <4>1 DEF Synchronous
    <3>. QED  BY <3>1, <3>2, HandlingMoves DEF Begins
  <2>. QED  BY <1>2, <2>1, <2>2, LocalMoves
<1>3. ASSUME NEW r \in Requests PROVE FirstInv(r)'
  <2> SUFFICES ASSUME localAlias'[r] = 0
               PROVE  /\ local'[r] = "pending" => \A q \in Requests : local'[q] \notin AcceptedStates
                      /\ local'[r] \in AcceptedStates => Leads(r)'
    BY Zenon DEF FirstInv
  <2>1. CASE local[r] = "none"
    <3>1. CASE local'[r] = "pending"
      <4>1. Begins(r)
        BY <2>1, <3>1, LocalMoves
      <4>2. nextAlias = 0 /\ local' = [local EXCEPT ![r] = "pending"]
        BY <1>0, <4>1 DEF Begins
      <4>3. \A q \in Requests : local[q] = "none"
        BY <1>0, <4>2 DEF AliasInv
      <4>. QED  BY <1>0, <3>1, <4>2, <4>3 DEF AcceptedStates
    <3>2. local'[r] \notin AcceptedStates
      BY <2>1, LocalMoves DEF AcceptedStates, Speaks
    <3>. QED  BY <3>1, <3>2
  <2>2. CASE local[r] = "pending"
    <3>1. localAlias[r] = 0
      BY <2>2, AliasStays
    <3>2. \A q \in Requests : local[q] \notin AcceptedStates
      BY <2>2, <3>1 DEF RouteInv, FirstInv
    <3>3. ASSUME local'[r] = "pending", NEW q \in Requests, local'[q] \in AcceptedStates PROVE FALSE
      <4>1. local[q] = "pending"
        BY <3>2, <3>3, LocalMoves DEF Speaks
      <4>2. q = r
        BY <2>2, <4>1 DEF RouteInv
      <4>. QED  BY <3>3, <4>2 DEF AcceptedStates
    <3>4. ASSUME local'[r] \in AcceptedStates PROVE Leads(r)'
      <4>1. Speaks(r, "SUBSCRIBE_OK")
        BY <3>2, <3>4, LocalMoves
      <4> DEFINE m == [type |-> "SUBSCRIBE_OK", id |-> r, alias |-> 0]
      <4>2. m \in SubMsg /\ m.type = "SUBSCRIBE_OK" /\ m.id = r /\ toSub' = Append(toSub, m) /\ aliasTo' = aliasTo
        BY <4>1 DEF SubMsg, Answers, Speaks, ToSub
      <4> HIDE DEF m
      <4>3. \A k \in 1..Len(toSub) : toSub[k].type # "SUBSCRIBE_OK"
        BY <3>2, OkAccepted
      <4>4. FirstOk(toSub', r)
        BY <1>0, <4>2, <4>3, FirstAppended
      <4>5. DOMAIN aliasTo = {}
        BY Zenon, <1>0, <3>2 DEF AliasInv
      <4>. QED  BY <4>2, <4>4, <4>5 DEF Leads
    <3>. QED  BY <3>3, <3>4
  <2>3. CASE local[r] \in AcceptedStates
    <3>1. localAlias[r] = 0 /\ local'[r] \in AcceptedStates
      BY <2>3, AliasStays DEF AcceptedStates
    <3>2. Leads(r)
      BY <2>3, <3>1 DEF RouteInv, FirstInv
    <3>. QED  BY <3>1, <3>2, LeadsStays DEF AcceptedStates
  <2>4. CASE local[r] = "rejected"
    BY <2>4, LocalMoves DEF Begins, Speaks, AcceptedStates
  <2>. QED  BY <1>0, <2>1, <2>2, <2>3, <2>4 DEF AcceptedStates
<1>. QED  BY <1>1, <1>2, <1>3 DEF RouteInv

\* A remote track opens when its SUBSCRIBE_OK is read.
LEMMA RemoteOpens ==
    ASSUME TypeOK, [Next]_vars, NEW r \in Requests, remote[r] # "open", remote'[r] = "open"
    PROVE  OnSubscribeOk /\ Head(toSub).id = r
<1>0. remote \in [Requests -> {"none", "pending", "open"}]
  BY DEF TypeOK
<1>1. CASE OnSubscribeOk
  <2>1. remote' = remote \/ remote' = [remote EXCEPT ![Head(toSub).id] = "open"]
    BY Zenon, <1>1 DEF OnSubscribeOk
  <2>. QED  BY <1>0, <1>1, <2>1
<1>2. CASE OnSubscribeError
  <2>1. remote' = remote \/ remote' = [remote EXCEPT ![Head(toSub).id] = "none"]
    BY Zenon, <1>2 DEF OnSubscribeError
  <2>. QED  BY <1>0, <2>1
<1>3. ASSUME NEW s \in Requests, SubscribeCall(s) \/ SubscribeReject(s) PROVE FALSE
  BY <1>0, <1>3 DEF SubscribeCall, AddPendingWithAlias, SubscribeReject
<1>4. ASSUME OnSubscribeDone \/ PubReader PROVE remote' = remote
  BY Zenon, <1>4 DEF OnSubscribeDone, PubReader, OnSubscribe, OnUnsubscribe, OnSubscribeUpdate, subVars
<1>5. ASSUME NEW s \in Requests,
             \/ SubscribeCtxDone(s) \/ Unsubscribe(s) \/ UpdateSubscription(s) \/ Answer(s)
             \/ SubscribeResponse(s) \/ CloseCancel(s) \/ Accept(s) \/ Reject(s) \/ HandlerReturn(s)
             \/ RejectUnhandled(s) \/ SubscriptionDone(s) \/ \E ns \in Namespaces : SubscribeWrite(s, ns)
      PROVE  remote' = remote
  BY Zenon, <1>5 DEF SubscribeCtxDone, Unsubscribe, UpdateSubscription, Answer, SubscribeResponse, CloseCancel,
     Accept, Reject, HandlerReturn, RejectUnhandled, SubscriptionDone, SubscribeWrite, subVars
<1>6. UNCHANGED vars => remote' = remote
  BY DEF vars, subVars
<1>. QED  BY Zenon, <1>1, <1>2, <1>3, <1>4, <1>5, <1>6 DEF Next, SubReader, Proceeds, Chooses

\* An alias is installed by the SUBSCRIBE_OK that opens its track.
LEMMA AliasInstalls ==
    ASSUME TypeOK, [Next]_vars, aliasTo' # aliasTo
    PROVE  /\ Head(toSub).id \in Requests /\ SetAlias(Head(toSub).id, Head(toSub).alias)
           /\ remote'[Head(toSub).id] = "open"
<1>1. OnSubscribeOk
  BY Zenon DEF Next, SubReader, PubReader, Proceeds, Chooses, SubscribeCall, SubscribeWrite, SubscribeReject,
     SubscribeResponse, SubscribeCtxDone, Unsubscribe, UpdateSubscription, OnSubscribeError,
     OnSubscribeDone, OnSubscribe, OnUnsubscribe, OnSubscribeUpdate, Answer, Accept,
     Reject, HandlerReturn, RejectUnhandled, CloseCancel, SubscriptionDone, vars, subVars
<1>2. /\ toSub # <<>> /\ SetAlias(Head(toSub).id, Head(toSub).alias)
      /\ remote' = [remote EXCEPT ![Head(toSub).id] = "open"]
  BY Zenon, <1>1 DEF OnSubscribeOk, SubReads
<1>3. toSub \in Seq(SubMsg) /\ remote \in [Requests -> {"none", "pending", "open"}]
  BY DEF TypeOK
<1>4. Head(toSub) \in SubMsg
  BY <1>2, <1>3, Taken
<1>5. Head(toSub).id \in Requests
  BY <1>4 DEF SubMsg
<1>. QED  BY <1>2, <1>3, <1>5

LEMMA InstalledInductive ==
    ASSUME TypeOK, \A x \in Requests : RequestInv(x), AliasInv, InstalledInv, [Next]_vars
    PROVE  InstalledInv'
<1>0. toSub \in Seq(SubMsg) /\ \A a \in DOMAIN aliasTo : aliasTo[a] \in Requests
  BY DEF TypeOK
<1>1. \A a \in DOMAIN aliasTo : a \in DOMAIN aliasTo'
  BY Zenon, AliasInstalls DEF SetAlias
<1>2. ASSUME NEW r \in Requests, remote'[r] = "open"
      PROVE  reader'["subscriber"] # "reading" \/ 0 \in DOMAIN aliasTo'
  <2>1. CASE remote[r] = "open" /\ reader["subscriber"] # "reading"
    BY <2>1, AliasSteps DEF Silent, Begins, Speaks, Hears, StillReading
  <2>2. CASE 0 \in DOMAIN aliasTo
    BY <1>1, <2>2
  <2>3. CASE remote[r] # "open"
    <3>1. OnSubscribeOk /\ Head(toSub).id = r
      BY <1>2, <2>3, RemoteOpens
    <3>2. Head(toSub).alias = 0
      <4>1. toSub # <<>>
        BY Zenon, <3>1 DEF OnSubscribeOk, SubReads
      <4>. QED  BY <1>0, <4>1, Taken DEF AliasInv
    <3>3. Dies("subscriber", "errUnknownRequestID") \/ Dies("subscriber", "errDuplicateTrackAlias") \/ SetAlias(r, 0)
      BY Zenon, <3>1, <3>2 DEF OnSubscribeOk
    <3>4. reader \in [{"subscriber", "publisher"} -> {"reading"} \cup Errors]
      BY DEF TypeOK
    <3>5. CASE Dies("subscriber", "errUnknownRequestID") \/ Dies("subscriber", "errDuplicateTrackAlias")
      BY <3>4, <3>5 DEF Dies
    <3>6. CASE SetAlias(r, 0)
      BY <3>6 DEF SetAlias
    <3>. QED  BY <3>3, <3>5, <3>6
  <2>. QED  BY <2>1, <2>2, <2>3 DEF InstalledInv
<1>3. ASSUME NEW a \in DOMAIN aliasTo' PROVE remote'[aliasTo'[a]] = "open"
  <2>1. ASSUME a \in DOMAIN aliasTo, aliasTo'[a] = aliasTo[a] PROVE remote'[aliasTo'[a]] = "open"
    BY <1>0, <2>1, OpenStays DEF InstalledInv
  <2>2. CASE aliasTo' = aliasTo
    BY <2>1, <2>2
  <2>3. CASE aliasTo' # aliasTo
    <3>1. SetAlias(Head(toSub).id, Head(toSub).alias) /\ remote'[Head(toSub).id] = "open"
      BY <2>3, AliasInstalls
    <3>2. aliasTo'[a] = Head(toSub).id \/ (a \in DOMAIN aliasTo /\ aliasTo'[a] = aliasTo[a])
      BY <3>1 DEF SetAlias
    <3>. QED  BY <2>1, <3>1, <3>2
  <2>. QED  BY <2>2, <2>3
<1>. QED  BY <1>2, <1>3 DEF InstalledInv
=============================================================================
