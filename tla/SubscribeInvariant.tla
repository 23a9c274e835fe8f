------------------------- MODULE SubscribeInvariant -------------------------
(***************************************************************************)
(* Type correctness of Subscribe, and an inductive invariant of it: how    *)
(* the control streams, the Subscribe call, the track maps and the         *)
(* responseChan of one request are related, and that every step keeps it   *)
(* for every request, of any set of requests.                              *)
(***************************************************************************)
EXTENDS Subscribe, SequenceTheorems, TLAPS

\* m is a message about request r whose type is one of T.
Is(m, T, r) == m.type \in T /\ m.id = r

\* What a control stream holds about request r: some message of the types T,
\* at most one, none of the types T behind one of the types U.
Has(q, T, r) == \E i \in 1..Len(q) : Is(q[i], T, r)
Once(q, T, r) == \A i, j \in 1..Len(q) : Is(q[i], T, r) /\ Is(q[j], T, r) => i = j
Before(q, T, U, r) == \A i, j \in 1..Len(q) : Is(q[i], T, r) /\ Is(q[j], U, r) => i < j

-----------------------------------------------------------------------------
\* What Append and Tail do to what a control stream holds.

\* The positions of a stream after a message is written or read.
LEMMA Appended ==
    ASSUME NEW S, NEW q \in Seq(S), NEW m \in S
    PROVE  /\ Append(q, m) \in Seq(S)
           /\ Len(q) \in Nat /\ Len(Append(q, m)) = Len(q) + 1
           /\ \A i \in 1..Len(q) : Append(q, m)[i] = q[i]
           /\ Append(q, m)[Len(q) + 1] = m
BY AppendProperties, LenProperties

LEMMA Taken ==
    ASSUME NEW S, NEW q \in Seq(S), q # <<>>
    PROVE  /\ Tail(q) \in Seq(S) /\ Head(q) \in S /\ Head(q) = q[1]
           /\ Len(q) \in Nat \ {0} /\ Len(Tail(q)) = Len(q) - 1
           /\ \A i \in 1..Len(Tail(q)) : i + 1 \in 1..Len(q) /\ Tail(q)[i] = q[i + 1]
<1>1. /\ Tail(q) \in Seq(S) /\ Head(q) \in S /\ Head(q) = q[1]
      /\ Len(q) \in Nat \ {0} /\ Len(Tail(q)) = Len(q) - 1
  BY HeadTailProperties, LenProperties, EmptySeq
<1>2. \A i \in 1..Len(Tail(q)) : i + 1 \in 1..Len(q) /\ Tail(q)[i] = q[i + 1]
  BY <1>1, HeadTailProperties
<1>. QED  BY <1>1, <1>2

\* A stream after a write holds what it held and the message written.
LEMMA AppendHas ==
    ASSUME NEW S, NEW q \in Seq(S), NEW m \in S, NEW T, NEW r
    PROVE  Has(Append(q, m), T, r) <=> Has(q, T, r) \/ Is(m, T, r)
<1>1. ASSUME Has(Append(q, m), T, r) PROVE Has(q, T, r) \/ Is(m, T, r)
  <2>1. PICK i \in 1..Len(q) + 1 : Is(Append(q, m)[i], T, r)
    BY <1>1, Appended DEF Has
  <2>2. CASE i = Len(q) + 1
    BY <2>1, <2>2, Appended
  <2>3. CASE i \in 1..Len(q)
    BY <2>1, <2>3, Appended DEF Has
  <2>. QED  BY <2>1, <2>2, <2>3, Appended
<1>2. ASSUME Has(q, T, r) PROVE Has(Append(q, m), T, r)
  <2>1. PICK i \in 1..Len(q) : Is(q[i], T, r)
    BY <1>2 DEF Has
  <2>2. i \in 1..Len(Append(q, m)) /\ Append(q, m)[i] = q[i]
    BY <2>1, Appended
  <2>. QED  BY <2>1, <2>2 DEF Has
<1>3. ASSUME Is(m, T, r) PROVE Has(Append(q, m), T, r)
  <2>1. Len(q) + 1 \in 1..Len(Append(q, m)) /\ Append(q, m)[Len(q) + 1] = m
    BY Appended
  <2>. QED  BY <1>3, <2>1 DEF Has
<1>. QED  BY <1>1, <1>2, <1>3

LEMMA AppendOnce ==
    ASSUME NEW S, NEW q \in Seq(S), NEW m \in S, NEW T, NEW r,
           Once(q, T, r), Is(m, T, r) => ~Has(q, T, r)
    PROVE  Once(Append(q, m), T, r)
<1> SUFFICES ASSUME NEW i \in 1..Len(q) + 1, NEW j \in 1..Len(q) + 1,
                    Is(Append(q, m)[i], T, r), Is(Append(q, m)[j], T, r)
             PROVE  i = j
  BY Appended DEF Once
<1>1. CASE i \in 1..Len(q) /\ j \in 1..Len(q)
  BY <1>1, Appended DEF Once
<1>2. CASE i \in 1..Len(q) /\ j = Len(q) + 1
  BY <1>2, Appended DEF Has
<1>3. CASE i = Len(q) + 1 /\ j \in 1..Len(q)
  BY <1>3, Appended DEF Has
<1>. QED  BY <1>1, <1>2, <1>3, Appended

LEMMA AppendBefore ==
    ASSUME NEW S, NEW q \in Seq(S), NEW m \in S, NEW T, NEW U, NEW r,
           Before(q, T, U, r), Is(m, T, r) => ~Has(q, U, r) /\ ~Is(m, U, r)
    PROVE  Before(Append(q, m), T, U, r)
<1> SUFFICES ASSUME NEW i \in 1..Len(q) + 1, NEW j \in 1..Len(q) + 1,
                    Is(Append(q, m)[i], T, r), Is(Append(q, m)[j], U, r)
             PROVE  i < j
  BY Appended DEF Before
<1>1. CASE i \in 1..Len(q) /\ j \in 1..Len(q)
  BY <1>1, Appended DEF Before
<1>2. CASE i \in 1..Len(q) /\ j = Len(q) + 1
  BY <1>2, Appended
<1>3. CASE i = Len(q) + 1
  BY <1>3, Appended DEF Has
<1>. QED  BY <1>1, <1>2, <1>3, Appended

\* A stream after a read holds what it held, but for the message read.
LEMMA TailHas ==
    ASSUME NEW S, NEW q \in Seq(S), q # <<>>, NEW T, NEW r
    PROVE  /\ Has(q, T, r) <=> Has(Tail(q), T, r) \/ Is(Head(q), T, r)
           /\ Once(q, T, r) /\ Is(Head(q), T, r) => ~Has(Tail(q), T, r)
<1>1. ASSUME Has(q, T, r) PROVE Has(Tail(q), T, r) \/ Is(Head(q), T, r)
  <2>1. PICK i \in 1..Len(q) : Is(q[i], T, r)
    BY <1>1 DEF Has
  <2>2. CASE i = 1
    BY <2>1, <2>2, Taken
  <2>3. CASE i # 1
    <3>1. i - 1 \in 1..Len(Tail(q)) /\ (i - 1) + 1 = i
      BY <2>3, Taken
    <3>2. Tail(q)[i - 1] = q[i]
      BY <3>1, Taken
    <3>. QED  BY <2>1, <3>1, <3>2 DEF Has
  <2>. QED  BY <2>2, <2>3
<1>2. ASSUME NEW i \in 1..Len(Tail(q)), Is(Tail(q)[i], T, r)
      PROVE  i + 1 \in 1..Len(q) /\ i + 1 # 1 /\ Is(q[i + 1], T, r)
  BY <1>2, Taken
<1>3. Is(Head(q), T, r) => 1 \in 1..Len(q) /\ Is(q[1], T, r)
  BY Taken
<1>4. Has(Tail(q), T, r) => Has(q, T, r)
  BY <1>2 DEF Has
<1>5. Is(Head(q), T, r) => Has(q, T, r)
  BY <1>3 DEF Has
<1>6. Once(q, T, r) /\ Is(Head(q), T, r) => ~Has(Tail(q), T, r)
  BY <1>2, <1>3 DEF Has, Once
<1>. QED  BY <1>1, <1>4, <1>5, <1>6

LEMMA TailOnce ==
    ASSUME NEW S, NEW q \in Seq(S), q # <<>>, NEW T, NEW r, Once(q, T, r)
    PROVE  Once(Tail(q), T, r)
<1> SUFFICES ASSUME NEW i \in 1..Len(Tail(q)), NEW j \in 1..Len(Tail(q)),
                    Is(Tail(q)[i], T, r), Is(Tail(q)[j], T, r)
             PROVE  i = j
  BY DEF Once
<1>1. i + 1 = j + 1
  BY Taken DEF Once
<1>. QED  BY <1>1

LEMMA TailBefore ==
    ASSUME NEW S, NEW q \in Seq(S), q # <<>>, NEW T, NEW U, NEW r, Before(q, T, U, r)
    PROVE  /\ Before(Tail(q), T, U, r)
           /\ Is(Head(q), U, r) => ~Has(q, T, r)
<1>1. ASSUME NEW i \in 1..Len(Tail(q)), NEW j \in 1..Len(Tail(q)),
             Is(Tail(q)[i], T, r), Is(Tail(q)[j], U, r)
      PROVE  i < j
  <2>1. i + 1 < j + 1
    BY <1>1, Taken DEF Before
  <2>. QED  BY <2>1
<1>2. ASSUME Is(Head(q), U, r), NEW i \in 1..Len(q), Is(q[i], T, r) PROVE FALSE
  <2>1. 1 \in 1..Len(q) /\ Is(q[1], U, r)
    BY <1>2, Taken
  <2>2. i < 1
    BY <1>2, <2>1 DEF Before
  <2>. QED  BY <2>2
<1>. QED  BY <1>1, <1>2 DEF Before, Has

-----------------------------------------------------------------------------
\* The same for the two control streams and the messages on them.

LEMMA PubWritten ==
    ASSUME TypeOK, NEW t \in {"SUBSCRIBE", "UNSUBSCRIBE", "SUBSCRIBE_UPDATE"}, NEW s \in Requests,
           NEW ns \in {"valid", "invalid"}, ToPub(t, s, ns)
    PROVE  /\ toPub' \in Seq(PubMsg)
           /\ \A T, r : Has(toPub', T, r) <=> Has(toPub, T, r) \/ (t \in T /\ s = r)
           /\ \A T, r : /\ Once(toPub, T, r)
                        /\ t \in T /\ s = r => ~Has(toPub, T, r)
                        => Once(toPub', T, r)
<1> DEFINE m == [type |-> t, id |-> s, ns |-> ns]
<1>1. toPub \in Seq(PubMsg) /\ toPub' = Append(toPub, m)
  BY DEF TypeOK, ToPub
<1>2. m \in PubMsg /\ \A T, r : Is(m, T, r) <=> t \in T /\ s = r
  BY DEF PubMsg, Is
<1> HIDE DEF m
<1>3. toPub' \in Seq(PubMsg)
  BY <1>1, <1>2, Appended
<1>4. ASSUME NEW T, NEW r PROVE Has(toPub', T, r) <=> Has(toPub, T, r) \/ Is(m, T, r)
  BY <1>1, <1>2, AppendHas
<1>5. ASSUME NEW T, NEW r, Once(toPub, T, r), Is(m, T, r) => ~Has(toPub, T, r)
      PROVE  Once(toPub', T, r)
  BY <1>1, <1>2, <1>5, AppendOnce
<1>. QED  BY <1>2, <1>3, <1>4, <1>5

LEMMA SubWritten ==
    ASSUME TypeOK, NEW t \in Answers \cup {"SUBSCRIBE_DONE"}, NEW s \in Requests, ToSub(t, s, 0)
    PROVE  /\ toSub' \in Seq(SubMsg)
           /\ \A T, r : Has(toSub', T, r) <=> Has(toSub, T, r) \/ (t \in T /\ s = r)
           /\ \A T, r : /\ Once(toSub, T, r)
                        /\ t \in T /\ s = r => ~Has(toSub, T, r)
                        => Once(toSub', T, r)
           /\ \A T, U, r : /\ Before(toSub, T, U, r)
                           /\ t \in T /\ s = r => ~Has(toSub, U, r) /\ t \notin U
                           => Before(toSub', T, U, r)
<1> DEFINE m == [type |-> t, id |-> s, alias |-> 0]
<1>1. toSub \in Seq(SubMsg) /\ toSub' = Append(toSub, m)
  BY DEF TypeOK, ToSub
<1>2. m \in SubMsg /\ \A T, r : Is(m, T, r) <=> t \in T /\ s = r
  BY DEF SubMsg, Is
<1> HIDE DEF m
<1>3. toSub' \in Seq(SubMsg)
  BY <1>1, <1>2, Appended
<1>4. ASSUME NEW T, NEW r PROVE Has(toSub', T, r) <=> Has(toSub, T, r) \/ Is(m, T, r)
  BY <1>1, <1>2, AppendHas
<1>5. ASSUME NEW T, NEW r, Once(toSub, T, r), Is(m, T, r) => ~Has(toSub, T, r)
      PROVE  Once(toSub', T, r)
  BY <1>1, <1>2, <1>5, AppendOnce
<1>6. ASSUME NEW T, NEW U, NEW r, Before(toSub, T, U, r),
             Is(m, T, r) => ~Has(toSub, U, r) /\ ~Is(m, U, r)
      PROVE  Before(toSub', T, U, r)
  BY <1>1, <1>2, <1>6, AppendBefore
<1>. QED  BY <1>2, <1>3, <1>4, <1>5, <1>6

LEMMA PubRead ==
    ASSUME TypeOK, NEW t, PubReads(t)
    PROVE  LET s == Head(toPub).id IN
           /\ toPub' \in Seq(PubMsg) /\ s \in Requests
           /\ \A T, r : Has(toPub, T, r) <=> Has(toPub', T, r) \/ (t \in T /\ s = r)
           /\ \A T, r : Once(toPub, T, r) /\ t \in T /\ s = r => ~Has(toPub', T, r)
           /\ \A T, r : Once(toPub, T, r) => Once(toPub', T, r)
<1> DEFINE s == Head(toPub).id
<1>1. toPub \in Seq(PubMsg) /\ toPub # <<>> /\ toPub' = Tail(toPub) /\ Head(toPub).type = t
  BY DEF TypeOK, PubReads
<1>2. toPub' \in Seq(PubMsg) /\ Head(toPub) \in PubMsg
  BY <1>1, Taken
<1>3. s \in Requests
  BY <1>2 DEF PubMsg
<1>4. \A T, r : Is(Head(toPub), T, r) <=> t \in T /\ s = r
  BY <1>1 DEF Is
<1> HIDE DEF s
<1>5. ASSUME NEW T, NEW r
      PROVE  /\ Has(toPub, T, r) <=> Has(toPub', T, r) \/ Is(Head(toPub), T, r)
             /\ Once(toPub, T, r) /\ Is(Head(toPub), T, r) => ~Has(toPub', T, r)
  BY <1>1, TailHas
<1>6. ASSUME NEW T, NEW r, Once(toPub, T, r) PROVE Once(toPub', T, r)
  BY <1>1, <1>6, TailOnce
<1>7. /\ \A T, r : Has(toPub, T, r) <=> Has(toPub', T, r) \/ (t \in T /\ s = r)
      /\ \A T, r : Once(toPub, T, r) /\ t \in T /\ s = r => ~Has(toPub', T, r)
      /\ \A T, r : Once(toPub, T, r) => Once(toPub', T, r)
  BY <1>4, <1>5, <1>6
<1>. QED  BY <1>2, <1>3, <1>7 DEF s

LEMMA SubRead ==
    ASSUME TypeOK, NEW t, SubReads(t)
    PROVE  LET s == Head(toSub).id IN
           /\ toSub' \in Seq(SubMsg) /\ s \in Requests /\ Head(toSub).alias \in Nat
           /\ \A T, r : Has(toSub, T, r) <=> Has(toSub', T, r) \/ (t \in T /\ s = r)
           /\ \A T, r : Once(toSub, T, r) /\ t \in T /\ s = r => ~Has(toSub', T, r)
           /\ \A T, r : Once(toSub, T, r) => Once(toSub', T, r)
           /\ \A T, U, r : Before(toSub, T, U, r) =>
                 Before(toSub', T, U, r) /\ (t \in U /\ s = r => ~Has(toSub, T, r))
<1> DEFINE s == Head(toSub).id
<1>1. toSub \in Seq(SubMsg) /\ toSub # <<>> /\ toSub' = Tail(toSub) /\ Head(toSub).type = t
  BY DEF TypeOK, SubReads
<1>2. toSub' \in Seq(SubMsg) /\ Head(toSub) \in SubMsg
  BY <1>1, Taken
<1>3. s \in Requests /\ Head(toSub).alias \in Nat
  BY <1>2 DEF SubMsg
<1>4. \A T, r : Is(Head(toSub), T, r) <=> t \in T /\ s = r
  BY <1>1 DEF Is
<1> HIDE DEF s
<1>5. ASSUME NEW T, NEW r
      PROVE  /\ Has(toSub, T, r) <=> Has(toSub', T, r) \/ Is(Head(toSub), T, r)
             /\ Once(toSub, T, r) /\ Is(Head(toSub), T, r) => ~Has(toSub', T, r)
  BY <1>1, TailHas
<1>6. ASSUME NEW T, NEW r, Once(toSub, T, r) PROVE Once(toSub', T, r)
  BY <1>1, <1>6, TailOnce
<1>7. ASSUME NEW T, NEW U, NEW r, Before(toSub, T, U, r)
      PROVE  Before(toSub', T, U, r) /\ (Is(Head(toSub), U, r) => ~Has(toSub, T, r))
  BY <1>1, <1>7, TailBefore
<1>8. /\ \A T, r : Has(toSub, T, r) <=> Has(toSub', T, r) \/ (t \in T /\ s = r)
      /\ \A T, r : Once(toSub, T, r) /\ t \in T /\ s = r => ~Has(toSub', T, r)
      /\ \A T, r : Once(toSub, T, r) => Once(toSub', T, r)
      /\ \A T, U, r : Before(toSub, T, U, r) =>
            Before(toSub', T, U, r) /\ (t \in U /\ s = r => ~Has(toSub, T, r))
  BY <1>4, <1>5, <1>6, <1>7
<1>. QED  BY <1>2, <1>3, <1>8 DEF s

\* An answer that is read was on the control stream, and was the only one.
LEMMA AnswerRead ==
    ASSUME TypeOK, NEW t \in Answers, SubReads(t)
    PROVE  LET s == Head(toSub).id IN
           /\ s \in Requests /\ Has(toSub, {t}, s) /\ Has(toSub, Answers, s)
           /\ Once(toSub, Answers, s) => ~Has(toSub', Answers, s)
<1>1. t \in {t}
  OBVIOUS
<1>. QED  BY Zenon, <1>1, SubRead

-----------------------------------------------------------------------------
\* Type correctness

LEMMA UpdateType ==
    ASSUME NEW A, NEW B, NEW f \in [A -> B], NEW a, NEW b \in B
    PROVE  [f EXCEPT ![a] = b] \in [A -> B]
BY Zenon

LEMMA DiesType ==
    ASSUME TypeOK, NEW side, NEW err \in Errors
    PROVE  /\ Dies(side, err) => reader' \in [{"subscriber", "publisher"} -> {"reading"} \cup Errors]
           /\ UNCHANGED reader => reader' \in [{"subscriber", "publisher"} -> {"reading"} \cup Errors]
<1>1. reader \in [{"subscriber", "publisher"} -> {"reading"} \cup Errors] /\ err \in {"reading"} \cup Errors
  BY DEF TypeOK
<1>. QED  BY Zenon, <1>1, UpdateType DEF Dies

LEMMA TypeInductive == TypeOK /\ [Next]_vars => TypeOK'
<1> SUFFICES ASSUME TypeOK, [Next]_vars PROVE TypeOK'
  OBVIOUS
<1>1. CASE UNCHANGED vars
  BY Zenon, <1>1 DEF TypeOK, vars, subVars, pubVars
<1>2. CASE \E s \in Requests : SubscribeCall(s)
  BY <1>2 DEF SubscribeCall, AddPendingWithAlias, TypeOK, CallStates, pubVars
<1>3. CASE \E s \in Requests : \E ns \in Namespaces : SubscribeWrite(s, ns)
  <2>1. PICK s \in Requests, ns \in {"valid", "invalid"} : SubscribeWrite(s, ns)
    BY <1>3, RequestsAssumption
  <2>2. toPub' \in Seq(PubMsg)
    BY <2>1, PubWritten DEF SubscribeWrite, TypeOK
  <2>3. call' \in [Requests -> CallStates]
    <3>1. call \in [Requests -> CallStates] /\ "waiting" \in CallStates /\ "unsent" \in CallStates
      BY DEF TypeOK, CallStates
    <3>. QED  BY <2>1, <3>1, UpdateType DEF SubscribeWrite
  <2>. QED  BY Zenon, <2>1, <2>2, <2>3 DEF SubscribeWrite, TypeOK, pubVars
<1>4. CASE \E s \in Requests : SubscribeResponse(s)
  BY <1>4 DEF SubscribeResponse, TypeOK, CallStates, pubVars
<1>5. CASE \E s \in Requests : SubscribeCtxDone(s)
  BY <1>5 DEF SubscribeCtxDone, TypeOK, CallStates, pubVars
<1>6. CASE \E s \in Requests : SubscribeReject(s)
  BY <1>6 DEF SubscribeReject, TypeOK, CallStates, pubVars
<1>7. CASE \E s \in Requests : Unsubscribe(s)
  <2>1. PICK s \in Requests : Unsubscribe(s)
    BY <1>7
  <2>2. toPub' \in Seq(PubMsg) /\ unsubscribed' \subseteq Requests
    BY <2>1, PubWritten DEF Unsubscribe, TypeOK
  <2>. QED  BY Zenon, <2>1, <2>2 DEF Unsubscribe, TypeOK, pubVars
<1>8. CASE \E s \in Requests : UpdateSubscription(s)
  <2>1. PICK s \in Requests : UpdateSubscription(s)
    BY <1>8
  <2>2. toPub' \in Seq(PubMsg) /\ updated' \subseteq Requests
    BY <2>1, PubWritten DEF UpdateSubscription, TypeOK
  <2>. QED  BY Zenon, <2>1, <2>2 DEF UpdateSubscription, TypeOK, pubVars
<1>9. CASE OnSubscribeOk
  <2>1. toSub' \in Seq(SubMsg) /\ Head(toSub).id \in Requests /\ Head(toSub).alias \in Nat
    BY <1>9, SubRead DEF OnSubscribeOk
  <2>2. toPub' \in Seq(PubMsg)
    BY <1>9, <2>1, PubWritten DEF OnSubscribeOk, TypeOK
  <2>3. /\ remote' \in [Requests -> {"none", "pending", "open"}]
        /\ response' \in [Requests -> {"none", "nil", "error"}]
    <3>1. /\ remote \in [Requests -> {"none", "pending", "open"}]
          /\ response \in [Requests -> {"none", "nil", "error"}]
      BY DEF TypeOK
    <3>. QED  BY <1>9, <3>1, UpdateType DEF OnSubscribeOk
  <2>5. reader' \in [{"subscriber", "publisher"} -> {"reading"} \cup Errors]
    BY <1>9, DiesType DEF OnSubscribeOk, Errors
  <2>4. DOMAIN aliasTo' \subseteq Nat /\ \A a \in DOMAIN aliasTo' : aliasTo'[a] \in Requests
    <3>1. DOMAIN aliasTo \subseteq Nat /\ \A a \in DOMAIN aliasTo : aliasTo[a] \in Requests
      BY DEF TypeOK
    <3>2. CASE UNCHANGED aliasTo
      BY <3>1, <3>2
    <3>3. CASE SetAlias(Head(toSub).id, Head(toSub).alias)
      BY <2>1, <3>1, <3>3 DEF SetAlias
    <3>. QED  BY <1>9, <3>2, <3>3 DEF OnSubscribeOk
  <2>. QED  BY Zenon, <1>9, <2>1, <2>2, <2>3, <2>4, <2>5 DEF OnSubscribeOk, TypeOK, pubVars
<1>10. CASE OnSubscribeError
  <2>1. toSub' \in Seq(SubMsg) /\ Head(toSub).id \in Requests
    BY <1>10, SubRead DEF OnSubscribeError
  <2>2. /\ remote' \in [Requests -> {"none", "pending", "open"}]
        /\ response' \in [Requests -> {"none", "nil", "error"}]
    <3>1. /\ remote \in [Requests -> {"none", "pending", "open"}]
          /\ response \in [Requests -> {"none", "nil", "error"}]
      BY DEF TypeOK
    <3>. QED  BY <1>10, <2>1, <3>1 DEF OnSubscribeError
  <2>3. reader' \in [{"subscriber", "publisher"} -> {"reading"} \cup Errors]
    BY <1>10, DiesType DEF OnSubscribeError, Errors
  <2>. QED  BY Zenon, <1>10, <2>1, <2>2, <2>3 DEF OnSubscribeError, TypeOK, pubVars
<1>11. CASE OnSubscribeDone
  <2>1. toSub' \in Seq(SubMsg) /\ Head(toSub).id \in Requests
    BY <1>11, SubRead DEF OnSubscribeDone
  <2>2. reader' \in [{"subscriber", "publisher"} -> {"reading"} \cup Errors]
    BY <1>11, DiesType DEF OnSubscribeDone, Errors
  <2>3. remoteDone' \in [Requests -> BOOLEAN]
    BY Zenon, <1>11 DEF OnSubscribeDone, TypeOK
  <2>. QED  BY Zenon, <1>11, <2>1, <2>2, <2>3 DEF OnSubscribeDone, TypeOK, pubVars
<1>12. CASE OnSubscribe
  <2>1. toPub' \in Seq(PubMsg) /\ Head(toPub).id \in Requests
    BY <1>12, PubRead DEF OnSubscribe
  <2>2. toSub' \in Seq(SubMsg)
    BY <1>12, <2>1, SubWritten DEF OnSubscribe, TypeOK, Answers
  <2>3. /\ nextAlias' \in Nat
        /\ local' \in [Requests -> {"none", "pending", "open", "rejected", "closed"}]
        /\ localAlias' \in [Requests -> Nat]
        /\ localCtx' \in [Requests -> {"none", "live", "unsubscribed", "done"}]
        /\ handling' \subseteq Requests
    <3>1. /\ nextAlias \in Nat /\ handling \subseteq Requests
          /\ local \in [Requests -> {"none", "pending", "open", "rejected", "closed"}]
          /\ localAlias \in [Requests -> Nat]
          /\ localCtx \in [Requests -> {"none", "live", "unsubscribed", "done"}]
      BY DEF TypeOK
    <3>2. nextAlias' \in Nat /\ handling' \subseteq Requests
      BY <1>12, <2>1, <3>1 DEF OnSubscribe
    <3>3. localAlias' \in [Requests -> Nat]
      BY Zenon, <1>12, <3>1, UpdateType DEF OnSubscribe, SequenceNext
    <3>4. local' \in [Requests -> {"none", "pending", "open", "rejected", "closed"}]
      BY Zenon, <1>12, <3>1, UpdateType DEF OnSubscribe
    <3>5. localCtx' \in [Requests -> {"none", "live", "unsubscribed", "done"}]
      BY Zenon, <1>12, <3>1, UpdateType DEF OnSubscribe
    <3>. QED  BY <3>2, <3>3, <3>4, <3>5
  <2>4. reader' \in [{"subscriber", "publisher"} -> {"reading"} \cup Errors]
    BY <1>12, DiesType DEF OnSubscribe, Errors
  <2>. QED  BY Zenon, <1>12, <2>1, <2>2, <2>3, <2>4 DEF OnSubscribe, TypeOK, subVars
<1>13. CASE OnUnsubscribe
  <2>1. toPub' \in Seq(PubMsg) /\ Head(toPub).id \in Requests
    BY <1>13, PubRead DEF OnUnsubscribe
  <2>2. localCtx' \in [Requests -> {"none", "live", "unsubscribed", "done"}]
    <3>1. localCtx \in [Requests -> {"none", "live", "unsubscribed", "done"}]
      BY DEF TypeOK
    <3>2. \A s \in Requests : (IF localCtx[s] = "live" THEN "unsubscribed" ELSE localCtx[s])
                                \in {"none", "live", "unsubscribed", "done"}
      BY <3>1
    <3>. QED  BY Zenon, <1>13, <2>1, <3>1, <3>2, UpdateType DEF OnUnsubscribe
  <2>3. reader' \in [{"subscriber", "publisher"} -> {"reading"} \cup Errors]
    BY <1>13, DiesType DEF OnUnsubscribe, Errors
  <2>. QED  BY Zenon, <1>13, <2>1, <2>2, <2>3 DEF OnUnsubscribe, TypeOK, subVars
<1>14. CASE OnSubscribeUpdate
  <2>1. toPub' \in Seq(PubMsg)
    BY <1>14, PubRead DEF OnSubscribeUpdate
  <2>2. reader' \in [{"subscriber", "publisher"} -> {"reading"} \cup Errors]
    BY <1>14, DiesType DEF OnSubscribeUpdate, Errors
  <2>. QED  BY Zenon, <1>14, <2>1, <2>2 DEF OnSubscribeUpdate, TypeOK, subVars, pubVars
<1>15. CASE \E s \in Requests : Answer(s)
  BY <1>15 DEF Answer, TypeOK, subVars
<1>16. CASE \E s \in Requests : Accept(s)
  <2>1. PICK s \in Requests : Accept(s)
    BY <1>16
  <2>2. toSub' \in Seq(SubMsg)
    BY <2>1, SubWritten DEF Accept, Answers
  <2>3. local' \in [Requests -> {"none", "pending", "open", "rejected", "closed"}]
    BY <2>1 DEF Accept, TypeOK
  <2>. QED  BY Zenon, <2>1, <2>2, <2>3 DEF Accept, TypeOK, subVars
<1>17. CASE \E s \in Requests : Reject(s)
  <2>1. PICK s \in Requests : Reject(s)
    BY <1>17
  <2>2. toSub' \in Seq(SubMsg)
    BY <2>1, SubWritten DEF Reject, RejectSubscription, Answers
  <2>3. local' \in [Requests -> {"none", "pending", "open", "rejected", "closed"}]
    BY <2>1 DEF Reject, RejectSubscription, TypeOK
  <2>. QED  BY Zenon, <2>1, <2>2, <2>3 DEF Reject, TypeOK, subVars
<1>18. CASE \E s \in Requests : HandlerReturn(s)
  BY <1>18 DEF HandlerReturn, TypeOK, subVars
<1>19. CASE \E s \in Requests : RejectUnhandled(s)
  <2>1. PICK s \in Requests : RejectUnhandled(s)
    BY <1>19
  <2>2. toSub' \in Seq(SubMsg)
    BY <2>1, SubWritten DEF RejectUnhandled, RejectSubscription, Answers, TypeOK
  <2>3. /\ local' \in [Requests -> {"none", "pending", "open", "rejected", "closed"}]
        /\ handling' \subseteq Requests
    <3>1. local \in [Requests -> {"none", "pending", "open", "rejected", "closed"}]
      BY DEF TypeOK
    <3>. QED  BY <2>1, <3>1, UpdateType DEF RejectUnhandled, RejectSubscription
  <2>4. reader' \in [{"subscriber", "publisher"} -> {"reading"} \cup Errors]
    BY <2>1, DiesType DEF RejectUnhandled, Errors
  <2>. QED  BY Zenon, <2>1, <2>2, <2>3, <2>4 DEF RejectUnhandled, TypeOK, subVars
<1>20. CASE \E s \in Requests : CloseCancel(s)
  BY <1>20 DEF CloseCancel, TypeOK, subVars
<1>21. CASE \E s \in Requests : SubscriptionDone(s)
  <2>1. PICK s \in Requests : SubscriptionDone(s)
    BY <1>21
  <2>2. toSub' \in Seq(SubMsg)
    BY Zenon, <2>1, SubWritten DEF SubscriptionDone, TypeOK
  <2>3. /\ local' \in [Requests -> {"none", "pending", "open", "rejected", "closed"}]
        /\ closing' \in [Requests -> {"no", "cancelled", "yes"}]
    BY Zenon, <2>1 DEF SubscriptionDone, TypeOK
  <2>. QED  BY Zenon, <2>1, <2>2, <2>3 DEF SubscriptionDone, TypeOK, subVars
<1>. QED  BY Zenon, <1>1, <1>2, <1>3, <1>4, <1>5, <1>6, <1>7, <1>8, <1>9, <1>10, <1>11, <1>12, <1>13,
             <1>14, <1>15, <1>16, <1>17, <1>18, <1>19, <1>20, <1>21
          DEF Next, SubReader, PubReader, Proceeds, Chooses

\* Every variable of the subscription machinery keeps its type: calls, track
\* maps, contexts and control streams of session.go, for any set of requests.
THEOREM Typing == Spec => []TypeOK
<1>1. Init => TypeOK
  BY DEF Init, TypeOK, CallStates, Errors
<1>. QED  BY <1>1, TypeInductive, PTL DEF Spec

-----------------------------------------------------------------------------
Unsent == {"idle", "registered", "unsent"}
AcceptedStates == {"open", "closed"}
Stuck == reader["subscriber"] = "errDuplicateTrackAlias"

\* The control streams of a request: one SUBSCRIBE, which the publisher does
\* not know, one answer, which the subscriber has not seen, then SUBSCRIBE_DONE.
StreamInv(r) ==
    /\ Once(toPub, {"SUBSCRIBE"}, r)
    /\ Once(toSub, Answers, r)
    /\ Before(toSub, Answers, {"SUBSCRIBE_DONE"}, r)
    /\ Has(toPub, {"SUBSCRIBE"}, r) => call[r] \notin Unsent /\ local[r] = "none"
    /\ Has(toPub, {"UNSUBSCRIBE"}, r) => r \in unsubscribed
    /\ Has(toPub, {"SUBSCRIBE_UPDATE"}, r) => r \in updated
    /\ Has(toSub, {"SUBSCRIBE_OK"}, r) => local[r] \in AcceptedStates
    /\ Has(toSub, {"SUBSCRIBE_ERROR"}, r) => local[r] = "rejected"
    /\ Has(toSub, Answers, r) =>
          /\ response[r] = "none"
          /\ remote[r] = "pending" \/ (remote[r] = "none" /\ call[r] = "cancelled")
    /\ Has(toSub, {"SUBSCRIBE_DONE"}, r) => local[r] = "closed"
    /\ remote[r] = "pending" /\ local[r] \in AcceptedStates => Has(toSub, {"SUBSCRIBE_OK"}, r)

\* Where the call, the track map and the responseChan of a request are at once.
CallInv(r) ==
    /\ call[r] = "idle" => remote[r] = "none"
    /\ call[r] \in {"registered", "unsent"} => remote[r] = "pending"
    /\ call[r] = "established" => remote[r] = "open"
    /\ call[r] \in {"erring", "rejected"} => remote[r] = "none" /\ local[r] = "rejected"
    /\ call[r] \in Unsent \cup {"established", "erring", "rejected"} => response[r] = "none"
    /\ call[r] \in {"waiting", "cancelling"} /\ remote[r] = "none" => response[r] = "error"
    /\ call[r] \in {"waiting", "cancelling", "cancelled"} /\ remote[r] = "open" => response[r] = "nil" \/ Stuck
    /\ call[r] = "cancelled" => remote[r] # "pending"
    /\ response[r] = "nil" => remote[r] = "open"
    /\ response[r] = "error" => remote[r] = "none" /\ local[r] = "rejected"

\* What the publisher's state of a request says about the subscriber's.
LocalInv(r) ==
    /\ call[r] \in Unsent => local[r] = "none"
    /\ remote[r] = "open" => local[r] \in AcceptedStates
    /\ r \in unsubscribed \cup updated => local[r] \in AcceptedStates
    /\ closing[r] = "cancelled" => local[r] = "open"
    /\ r \in handling => local[r] = "pending" \/ r \in answering

RequestInv(r) == StreamInv(r) /\ CallInv(r) /\ LocalInv(r)

SubscribeInv ==
    /\ TypeOK
    /\ \A r \in Requests : RequestInv(r)
    /\ DoneAfterOk
    /\ UnknownOnlyAfterClose

-----------------------------------------------------------------------------
\* The inductive invariant

\* A step leaves the state of request r alone ...
SameState(r) ==
    /\ call'[r] = call[r] /\ remote'[r] = remote[r] /\ response'[r] = response[r]
    /\ local'[r] = local[r] /\ closing'[r] = closing[r]
    /\ (r \in unsubscribed' <=> r \in unsubscribed) /\ (r \in updated' <=> r \in updated)
    /\ r \in handling' => r \in handling
    /\ r \in answering => r \in answering'
    /\ Stuck => Stuck'

\* ... and what the control streams hold about it.
SamePub(r) ==
    /\ \A T : Has(toPub', T, r) <=> Has(toPub, T, r)
    /\ \A T : Once(toPub, T, r) => Once(toPub', T, r)
SameSub(r) ==
    /\ \A T : Has(toSub', T, r) <=> Has(toSub, T, r)
    /\ \A T : Once(toSub, T, r) => Once(toSub', T, r)
    /\ \A T, U : Before(toSub, T, U, r) => Before(toSub', T, U, r)

LEMMA StreamsStay ==
    ASSUME NEW r
    PROVE  (UNCHANGED toPub => SamePub(r)) /\ (UNCHANGED toSub => SameSub(r))
BY Zenon DEF SamePub, SameSub

LEMMA Untouched ==
    ASSUME NEW r, RequestInv(r), SameState(r), SamePub(r), SameSub(r)
    PROVE  RequestInv(r)'
<1>1. StreamInv(r)'
  BY Zenon DEF RequestInv, StreamInv, SameState, SamePub, SameSub
<1>2. CallInv(r)'
  BY DEF RequestInv, CallInv, SameState, Stuck
<1>3. LocalInv(r)'
  BY DEF RequestInv, LocalInv, SameState
<1>. QED  BY <1>1, <1>2, <1>3 DEF RequestInv

\* The steps of the subscriber's calls.
LEMMA InvSubscribeCall ==
    ASSUME TypeOK, NEW s \in Requests, SubscribeCall(s), NEW r \in Requests, RequestInv(r)
    PROVE  RequestInv(r)'
<1>1. SamePub(r) /\ SameSub(r)
  BY StreamsStay DEF SubscribeCall
<1>2. CASE r # s
  BY <1>1, <1>2, Untouched DEF SubscribeCall, AddPendingWithAlias, SameState, Stuck, TypeOK, pubVars
<1>3. CASE r = s
  <2>1. call[r] = "idle" /\ call'[r] = "registered" /\ remote'[r] = "pending"
    BY <1>3 DEF SubscribeCall, AddPendingWithAlias, TypeOK
  <2>2. UNCHANGED <<response, unsubscribed, updated, local, closing, handling, answering, reader>>
    BY DEF SubscribeCall, pubVars
  <2>3. StreamInv(r)'
    BY <1>1, <2>1, <2>2 DEF RequestInv, StreamInv, LocalInv, SamePub, SameSub, Unsent, AcceptedStates
  <2>4. CallInv(r)' /\ LocalInv(r)'
    BY <2>1, <2>2 DEF RequestInv, CallInv, LocalInv, Unsent
  <2>. QED  BY <2>3, <2>4 DEF RequestInv
<1>. QED  BY <1>2, <1>3

LEMMA InvSubscribeWrite ==
    ASSUME TypeOK, NEW s \in Requests, NEW ns \in {"valid", "invalid"}, SubscribeWrite(s, ns),
           NEW r \in Requests, RequestInv(r)
    PROVE  RequestInv(r)'
<1>1. SameSub(r)
  BY StreamsStay DEF SubscribeWrite
<1>2. UNCHANGED <<remote, response, unsubscribed, updated, local, closing, handling, answering, reader>>
  BY DEF SubscribeWrite, pubVars
<1>3. CASE r # s
  <2>1. SamePub(r)
    BY <1>3, StreamsStay, PubWritten DEF SubscribeWrite, SamePub
  <2>2. SameState(r)
    BY <1>2, <1>3 DEF SubscribeWrite, SameState, Stuck, TypeOK
  <2>. QED  BY <1>1, <2>1, <2>2, Untouched
<1>4. CASE r = s
  <2>1. call[r] = "registered" /\ local[r] = "none" /\ remote[r] = "pending" /\ ~Has(toPub, {"SUBSCRIBE"}, r)
    BY <1>4 DEF SubscribeWrite, RequestInv, StreamInv, CallInv, LocalInv, Unsent
  <2>2. CASE ToPub("SUBSCRIBE", s, ns) /\ call'[r] = "waiting"
    <3>1. /\ Has(toPub', {"UNSUBSCRIBE"}, r) <=> Has(toPub, {"UNSUBSCRIBE"}, r)
          /\ Has(toPub', {"SUBSCRIBE_UPDATE"}, r) <=> Has(toPub, {"SUBSCRIBE_UPDATE"}, r)
          /\ Once(toPub, {"SUBSCRIBE"}, r) => Once(toPub', {"SUBSCRIBE"}, r)
      BY <2>1, <2>2, PubWritten
    <3>2. StreamInv(r)'
      BY <1>1, <1>2, <2>1, <2>2, <3>1 DEF RequestInv, StreamInv, SameSub, Unsent, AcceptedStates
    <3>3. CallInv(r)' /\ LocalInv(r)'
      BY <1>2, <2>1, <2>2 DEF RequestInv, CallInv, LocalInv, Unsent
    <3>. QED  BY <3>2, <3>3 DEF RequestInv
  <2>3. CASE UNCHANGED toPub /\ call'[r] = "unsent"
    <3>1. SamePub(r)
      BY <2>3, StreamsStay
    <3>2. StreamInv(r)'
      BY Zenon, <1>1, <1>2, <2>1, <2>3, <3>1 DEF RequestInv, StreamInv, SamePub, SameSub, Unsent, AcceptedStates
    <3>3. CallInv(r)' /\ LocalInv(r)'
      BY <1>2, <2>1, <2>3 DEF RequestInv, CallInv, LocalInv, Unsent
    <3>. QED  BY <3>2, <3>3 DEF RequestInv
  <2>. QED  BY <1>4, <2>2, <2>3 DEF SubscribeWrite, TypeOK
<1>. QED  BY <1>3, <1>4

\* The three steps of a call that touch no control stream.
LEMMA InvSubscribeReturns ==
    ASSUME TypeOK, NEW s \in Requests, SubscribeResponse(s) \/ SubscribeCtxDone(s) \/ SubscribeReject(s),
           NEW r \in Requests, RequestInv(r)
    PROVE  RequestInv(r)'
<1>1. SamePub(r) /\ SameSub(r)
  BY StreamsStay DEF SubscribeResponse, SubscribeCtxDone, SubscribeReject
<1>2. UNCHANGED <<unsubscribed, updated, local, closing, handling, answering, reader>>
  BY DEF SubscribeResponse, SubscribeCtxDone, SubscribeReject, pubVars
<1>3. CASE r # s
  <2>1. SameState(r)
    BY <1>2, <1>3 DEF SubscribeResponse, SubscribeCtxDone, SubscribeReject, SameState, Stuck, TypeOK
  <2>. QED  BY <1>1, <2>1, Untouched
<1>4. CASE r = s
  <2>1. \/ /\ call[r] = "waiting" /\ response[r] = "nil"
           /\ call'[r] = "established" /\ response'[r] = "none" /\ remote'[r] = remote[r]
        \/ /\ call[r] = "waiting" /\ response[r] = "error"
           /\ call'[r] = "erring" /\ response'[r] = "none" /\ remote'[r] = remote[r]
        \/ /\ call[r] = "waiting" /\ call'[r] = "cancelling"
           /\ response'[r] = response[r] /\ remote'[r] = remote[r]
        \/ /\ call[r] = "cancelling" /\ call'[r] = "cancelled"
           /\ response'[r] = response[r]
           /\ remote'[r] = IF remote[r] = "pending" THEN "none" ELSE remote[r]
        \/ /\ call[r] = "erring" /\ call'[r] = "rejected"
           /\ response'[r] = response[r] /\ remote'[r] = IF remote[r] = "pending" THEN "none" ELSE remote[r]
    BY <1>4 DEF SubscribeResponse, SubscribeCtxDone, SubscribeReject, TypeOK
  <2>2. remote[r] \in {"none", "pending", "open"}
    BY DEF TypeOK
  <2>3. StreamInv(r)'
    BY Zenon, <1>1, <1>2, <2>1, <2>2 DEF RequestInv, StreamInv, CallInv, SamePub, SameSub, Unsent, AcceptedStates
  <2>4. CallInv(r)' /\ LocalInv(r)'
    BY Zenon, <1>2, <2>1, <2>2 DEF RequestInv, CallInv, LocalInv, Unsent, Stuck
  <2>. QED  BY <2>3, <2>4 DEF RequestInv
<1>. QED  BY <1>3, <1>4

\* RemoteTrack.Close and UpdateSubscription.
LEMMA InvTrackCalls ==
    ASSUME TypeOK, NEW s \in Requests, Unsubscribe(s) \/ UpdateSubscription(s),
           NEW r \in Requests, RequestInv(r)
    PROVE  RequestInv(r)'
<1>1. SameSub(r)
  BY Zenon, StreamsStay DEF Unsubscribe, UpdateSubscription
<1>2. UNCHANGED <<call, remote, response, local, closing, handling, answering, reader>>
  BY DEF Unsubscribe, UpdateSubscription, pubVars
<1>3. \/ ToPub("UNSUBSCRIBE", s, "valid") /\ unsubscribed' = unsubscribed \cup {s} /\ updated' = updated
      \/ ToPub("SUBSCRIBE_UPDATE", s, "valid") /\ updated' = updated \cup {s} /\ unsubscribed' = unsubscribed
  BY DEF Unsubscribe, UpdateSubscription
<1>4. CASE r # s
  <2>1. SamePub(r)
    BY <1>3, <1>4, PubWritten DEF SamePub
  <2>2. SameState(r)
    BY <1>2, <1>3, <1>4 DEF SameState, Stuck
  <2>. QED  BY <1>1, <2>1, <2>2, Untouched
<1>5. CASE r = s
  <2>1. call[r] = "established" /\ local[r] \in AcceptedStates
    BY <1>5 DEF Unsubscribe, UpdateSubscription, RequestInv, CallInv, LocalInv
  <2>2. /\ Has(toPub', {"SUBSCRIBE"}, r) <=> Has(toPub, {"SUBSCRIBE"}, r)
        /\ Has(toPub', {"UNSUBSCRIBE"}, r) => Has(toPub, {"UNSUBSCRIBE"}, r) \/ r \in unsubscribed'
        /\ Has(toPub', {"SUBSCRIBE_UPDATE"}, r) => Has(toPub, {"SUBSCRIBE_UPDATE"}, r) \/ r \in updated'
        /\ Once(toPub, {"SUBSCRIBE"}, r) => Once(toPub', {"SUBSCRIBE"}, r)
    BY <1>3, <1>5, PubWritten
  <2>3. (r \in unsubscribed => r \in unsubscribed') /\ (r \in updated => r \in updated')
    BY <1>3
  <2>4. StreamInv(r)'
    BY Zenon, <1>1, <1>2, <2>2, <2>3 DEF RequestInv, StreamInv, SameSub
  <2>5. CallInv(r)' /\ LocalInv(r)'
    BY Zenon, <1>2, <2>1 DEF RequestInv, CallInv, LocalInv, Stuck
  <2>. QED  BY <2>4, <2>5 DEF RequestInv
<1>. QED  BY <1>4, <1>5

\* The subscriber's control reader: an answer finds the call's track pending,
\* unless the call was cancelled; SUBSCRIBE_DONE finds it open or removed.
LEMMA InvOnSubscribeOk ==
    ASSUME TypeOK, OnSubscribeOk, NEW r \in Requests, RequestInv(r), RequestInv(Head(toSub).id)
    PROVE  RequestInv(r)'
<1> DEFINE s == Head(toSub).id
<1>1. SubReads("SUBSCRIBE_OK") /\ s \in Requests /\ Has(toSub, {"SUBSCRIBE_OK"}, s) /\ Has(toSub, Answers, s)
      /\ (Once(toSub, Answers, s) => ~Has(toSub', Answers, s))
  <2>1. SubReads("SUBSCRIBE_OK") /\ "SUBSCRIBE_OK" \in Answers
    BY DEF OnSubscribeOk, Answers
  <2>. QED  BY Zenon, <2>1, AnswerRead
<1>2. UNCHANGED <<call, unsubscribed, updated, local, closing, handling, answering>>
  BY DEF OnSubscribeOk, pubVars
<1>3. response[s] = "none" /\ local[s] \in AcceptedStates
      /\ (remote[s] = "pending" \/ (remote[s] = "none" /\ call[s] = "cancelled"))
  BY Zenon, <1>1 DEF RequestInv, StreamInv
<1>4. /\ \A x \in Requests : x # s => remote'[x] = remote[x] /\ response'[x] = response[x]
      /\ remote[s] # "pending" => remote'[s] = remote[s] /\ response'[s] = response[s]
      /\ remote[s] = "pending" => remote'[s] = "open" /\ (response'[s] = "nil" \/ (response'[s] = "none" /\ Stuck'))
  <2>1. reader \in [{"subscriber", "publisher"} -> {"reading"} \cup Errors]
    BY DEF TypeOK
  <2>2. Dies("subscriber", "errDuplicateTrackAlias") => Stuck'
    BY <2>1 DEF Dies, Stuck
  <2>3. remote \in [Requests -> {"none", "pending", "open"}] /\ response \in [Requests -> {"none", "nil", "error"}]
    BY DEF TypeOK
  <2>. QED  BY <1>1, <1>3, <2>2, <2>3 DEF OnSubscribeOk
<1>5. ~Stuck /\ UNCHANGED toPub
  BY <1>3 DEF OnSubscribeOk, SubReads, Stuck
<1>6. SamePub(r)
  BY <1>5, StreamsStay
<1> HIDE DEF s
<1>7. CASE r # s
  <2>1. SameSub(r)
    BY <1>1, <1>7, SubRead DEF s, SameSub
  <2>2. SameState(r)
    BY <1>2, <1>4, <1>5, <1>7 DEF SameState
  <2>. QED  BY <1>6, <2>1, <2>2, Untouched
<1>8. CASE r = s
  <2>1. ~Has(toSub', Answers, r) /\ Once(toSub', Answers, r)
        /\ Before(toSub', Answers, {"SUBSCRIBE_DONE"}, r)
        /\ (Has(toSub', {"SUBSCRIBE_DONE"}, r) => Has(toSub, {"SUBSCRIBE_DONE"}, r))
    <3>1. Once(toSub, Answers, r) /\ Before(toSub, Answers, {"SUBSCRIBE_DONE"}, r)
      BY DEF RequestInv, StreamInv
    <3>. QED  BY Zenon, <1>1, <1>8, <3>1, SubRead
  <2>2. ~Has(toSub', {"SUBSCRIBE_OK"}, r) /\ ~Has(toSub', {"SUBSCRIBE_ERROR"}, r)
    BY <2>1 DEF Has, Is, Answers
  <2>3. StreamInv(r)'
    BY Zenon, <1>2, <1>4, <1>6, <1>8, <2>1, <2>2, <1>3 DEF RequestInv, StreamInv, SamePub
  <2>4. CallInv(r)' /\ LocalInv(r)'
    BY Zenon, <1>2, <1>3, <1>4, <1>5, <1>8 DEF RequestInv, CallInv, LocalInv, AcceptedStates, Unsent
  <2>. QED  BY <2>3, <2>4 DEF RequestInv
<1>. QED  BY <1>7, <1>8

LEMMA InvOnSubscribeError ==
    ASSUME TypeOK, OnSubscribeError, NEW r \in Requests, RequestInv(r), RequestInv(Head(toSub).id)
    PROVE  RequestInv(r)'
<1> DEFINE s == Head(toSub).id
<1>1. SubReads("SUBSCRIBE_ERROR") /\ s \in Requests /\ Has(toSub, {"SUBSCRIBE_ERROR"}, s) /\ Has(toSub, Answers, s)
      /\ (Once(toSub, Answers, s) => ~Has(toSub', Answers, s))
  <2>1. SubReads("SUBSCRIBE_ERROR") /\ "SUBSCRIBE_ERROR" \in Answers
    BY DEF OnSubscribeError, Answers
  <2>. QED  BY Zenon, <2>1, AnswerRead
<1>2. UNCHANGED <<call, unsubscribed, updated, local, closing, handling, answering, toPub>>
  BY Zenon DEF OnSubscribeError, pubVars
<1>3. response[s] = "none" /\ local[s] = "rejected"
      /\ (remote[s] = "pending" \/ (remote[s] = "none" /\ call[s] = "cancelled"))
  BY Zenon, <1>1 DEF RequestInv, StreamInv
<1>4. /\ \A x \in Requests : x # s => remote'[x] = remote[x] /\ response'[x] = response[x]
      /\ remote[s] # "pending" => remote'[s] = remote[s] /\ response'[s] = response[s]
      /\ remote[s] = "pending" => remote'[s] = "none" /\ response'[s] = "error"
  BY Zenon, <1>1, <1>3 DEF OnSubscribeError, TypeOK
<1>5. ~Stuck
  BY Zenon DEF OnSubscribeError, SubReads, Stuck
<1>6. SamePub(r)
  BY <1>2, StreamsStay
<1> HIDE DEF s
<1>7. CASE r # s
  <2>1. SameSub(r)
    BY <1>1, <1>7, SubRead DEF s, SameSub
  <2>2. SameState(r)
    BY <1>2, <1>4, <1>5, <1>7 DEF SameState
  <2>. QED  BY <1>6, <2>1, <2>2, Untouched
<1>8. CASE r = s
  <2>1. ~Has(toSub', Answers, r) /\ Once(toSub', Answers, r)
        /\ Before(toSub', Answers, {"SUBSCRIBE_DONE"}, r)
        /\ (Has(toSub', {"SUBSCRIBE_DONE"}, r) => Has(toSub, {"SUBSCRIBE_DONE"}, r))
    <3>1. Once(toSub, Answers, r) /\ Before(toSub, Answers, {"SUBSCRIBE_DONE"}, r)
      BY DEF RequestInv, StreamInv
    <3>. QED  BY Zenon, <1>1, <1>8, <3>1, SubRead
  <2>2. ~Has(toSub', {"SUBSCRIBE_OK"}, r) /\ ~Has(toSub', {"SUBSCRIBE_ERROR"}, r)
    BY <2>1 DEF Has, Is, Answers
  <2>3. StreamInv(r)'
    BY Zenon, <1>2, <1>3, <1>4, <1>6, <1>8, <2>1, <2>2 DEF RequestInv, StreamInv, SamePub, AcceptedStates
  <2>4. CallInv(r)' /\ LocalInv(r)'
    BY Zenon, <1>2, <1>3, <1>4, <1>5, <1>8 DEF RequestInv, CallInv, LocalInv, AcceptedStates, Unsent
  <2>. QED  BY <2>3, <2>4 DEF RequestInv
<1>. QED  BY <1>7, <1>8

LEMMA InvOnSubscribeDone ==
    ASSUME TypeOK, OnSubscribeDone, NEW r \in Requests, RequestInv(r)
    PROVE  RequestInv(r)'
<1>1. SubReads("SUBSCRIBE_DONE")
  BY DEF OnSubscribeDone
<1>2. UNCHANGED <<call, remote, response, unsubscribed, updated, local, closing, handling, answering, toPub>>
  BY DEF OnSubscribeDone, pubVars
<1>3. ~Stuck
  BY <1>1 DEF SubReads, Stuck
<1>4. SamePub(r)
  BY <1>2, StreamsStay
<1>5. /\ Once(toSub', Answers, r) /\ Before(toSub', Answers, {"SUBSCRIBE_DONE"}, r)
      /\ \A T : Has(toSub', T, r) => Has(toSub, T, r)
      /\ Has(toSub, {"SUBSCRIBE_OK"}, r) => Has(toSub', {"SUBSCRIBE_OK"}, r)
  <2>1. Once(toSub, Answers, r) /\ Before(toSub, Answers, {"SUBSCRIBE_DONE"}, r)
    BY DEF RequestInv, StreamInv
  <2>2. "SUBSCRIBE_DONE" \notin {"SUBSCRIBE_OK"}
    OBVIOUS
  <2>. QED  BY Zenon, <1>1, <2>1, <2>2, SubRead
<1>6. StreamInv(r)'
  BY Zenon, <1>2, <1>4, <1>5 DEF RequestInv, StreamInv, SamePub
<1>7. CallInv(r)' /\ LocalInv(r)'
  BY <1>2, <1>3 DEF RequestInv, CallInv, LocalInv
<1>. QED  BY <1>6, <1>7 DEF RequestInv

\* The publisher's control reader: SUBSCRIBE finds no local track, so onSubscribe
\* never refuses a duplicate.
LEMMA SubscribeIsNew ==
    ASSUME TypeOK, OnSubscribe, RequestInv(Head(toPub).id)
    PROVE  /\ Head(toPub).id \in Requests /\ local[Head(toPub).id] = "none"
           /\ call[Head(toPub).id] \notin Unsent /\ UNCHANGED toSub
<1>1. Head(toPub).id \in Requests /\ Has(toPub, {"SUBSCRIBE"}, Head(toPub).id)
  BY Zenon, PubRead DEF OnSubscribe
<1>2. local[Head(toPub).id] = "none" /\ call[Head(toPub).id] \notin Unsent
  BY <1>1 DEF RequestInv, StreamInv
<1>. QED  BY Zenon, <1>1, <1>2 DEF OnSubscribe, Known

LEMMA InvOnSubscribe ==
    ASSUME TypeOK, OnSubscribe, NEW r \in Requests, RequestInv(r), RequestInv(Head(toPub).id)
    PROVE  RequestInv(r)'
<1> DEFINE s == Head(toPub).id
<1>1. PubReads("SUBSCRIBE") /\ s \in Requests /\ local[s] = "none" /\ call[s] \notin Unsent /\ UNCHANGED toSub
  BY SubscribeIsNew DEF OnSubscribe
<1>2. UNCHANGED <<call, remote, response, unsubscribed, updated, closing, answering>> /\ handling = {}
  BY DEF OnSubscribe, PubReads, subVars
<1>3. /\ \A x \in Requests : x # s => local'[x] = local[x] /\ x \notin handling'
      /\ \/ local'[s] = "pending"
         \/ local'[s] = local[s] /\ s \notin handling'
  <2>1. local \in [Requests -> {"none", "pending", "open", "rejected", "closed"}]
    BY DEF TypeOK
  <2>2. \/ local' = local /\ handling' = handling
        \/ local' = [local EXCEPT ![s] = "pending"] /\ handling' = {s}
    BY Zenon DEF OnSubscribe
  <2> HIDE DEF s
  <2>. QED  BY <1>1, <1>2, <2>1, <2>2
<1>4. Stuck => Stuck'
  BY DEF OnSubscribe, Dies, Stuck, TypeOK
<1>5. SameSub(r)
  BY <1>1, StreamsStay
<1> HIDE DEF s
<1>6. CASE r # s
  <2>1. SamePub(r)
    BY <1>1, <1>6, PubRead DEF s, SamePub
  <2>2. SameState(r)
    BY <1>2, <1>3, <1>4, <1>6 DEF SameState
  <2>. QED  BY <1>5, <2>1, <2>2, Untouched
<1>7. CASE r = s
  <2>1. ~Has(toPub', {"SUBSCRIBE"}, r) /\ Once(toPub', {"SUBSCRIBE"}, r)
        /\ (Has(toPub', {"UNSUBSCRIBE"}, r) => Has(toPub, {"UNSUBSCRIBE"}, r))
        /\ (Has(toPub', {"SUBSCRIBE_UPDATE"}, r) => Has(toPub, {"SUBSCRIBE_UPDATE"}, r))
    BY Zenon, <1>1, <1>7, PubRead DEF s, RequestInv, StreamInv
  <2>2. StreamInv(r)'
    BY Zenon, <1>1, <1>2, <1>3, <1>5, <1>7, <2>1 DEF RequestInv, StreamInv, SameSub, AcceptedStates
  <2>3. CallInv(r)'
    BY <1>1, <1>2, <1>3, <1>4, <1>7 DEF RequestInv, CallInv
  <2>4. LocalInv(r)'
    BY Zenon, <1>1, <1>2, <1>3, <1>7 DEF RequestInv, LocalInv, AcceptedStates
  <2>. QED  BY <2>2, <2>3, <2>4 DEF RequestInv
<1>. QED  BY <1>6, <1>7

LEMMA InvOnTrackMessage ==
    ASSUME TypeOK, OnUnsubscribe \/ OnSubscribeUpdate, NEW r \in Requests, RequestInv(r)
    PROVE  RequestInv(r)'
<1>1. PubReads("UNSUBSCRIBE") \/ PubReads("SUBSCRIBE_UPDATE")
  BY Zenon DEF OnUnsubscribe, OnSubscribeUpdate
<1>2. UNCHANGED <<call, remote, response, unsubscribed, updated, local, closing, handling, answering, toSub>>
  BY DEF OnUnsubscribe, OnSubscribeUpdate, subVars, pubVars
<1>3. Stuck => Stuck'
  BY DEF OnUnsubscribe, OnSubscribeUpdate, Dies, Stuck, TypeOK
<1>4. SameSub(r)
  BY <1>2, StreamsStay
<1>5. Once(toPub', {"SUBSCRIBE"}, r) /\ \A T : Has(toPub', T, r) => Has(toPub, T, r)
  BY Zenon, <1>1, PubRead DEF RequestInv, StreamInv
<1>6. StreamInv(r)'
  BY Zenon, <1>2, <1>4, <1>5 DEF RequestInv, StreamInv, SameSub
<1>7. CallInv(r)' /\ LocalInv(r)'
  BY <1>2, <1>3 DEF RequestInv, CallInv, LocalInv
<1>. QED  BY <1>6, <1>7 DEF RequestInv

\* The steps of the publisher's handler and calls that write nothing.
LEMMA InvHandler ==
    ASSUME TypeOK, NEW s \in Requests, Answer(s) \/ HandlerReturn(s) \/ CloseCancel(s),
           NEW r \in Requests, RequestInv(r)
    PROVE  RequestInv(r)'
<1>1. SamePub(r) /\ SameSub(r)
  BY StreamsStay DEF Answer, HandlerReturn, CloseCancel
<1>2. UNCHANGED <<call, remote, response, unsubscribed, updated, local, reader>>
  BY DEF Answer, HandlerReturn, CloseCancel, subVars
<1>3. /\ r \in handling' => r \in handling
      /\ r \in answering => r \in answering'
      /\ closing'[r] = closing[r] \/ local[r] = "open"
  BY DEF Answer, HandlerReturn, CloseCancel, TypeOK
<1>4. StreamInv(r)'
  BY Zenon, <1>1, <1>2 DEF RequestInv, StreamInv, SamePub, SameSub
<1>5. CallInv(r)' /\ LocalInv(r)'
  BY <1>2, <1>3 DEF RequestInv, CallInv, LocalInv, Stuck
<1>. QED  BY <1>4, <1>5 DEF RequestInv

\* The steps that answer a subscription, which was not answered before.
LEMMA InvAnswer ==
    ASSUME TypeOK, NEW s \in Requests, NEW t \in Answers, NEW place,
           local[s] = "pending", local' = [local EXCEPT ![s] = place], ToSub(t, s, 0),
           \/ t = "SUBSCRIBE_OK" /\ place = "open"
           \/ t = "SUBSCRIBE_ERROR" /\ place = "rejected",
           UNCHANGED <<subVars, closing, answering, reader, toPub>>,
           handling' = {} \/ (s \in answering /\ handling' = handling),
           NEW r \in Requests, RequestInv(r)
    PROVE  RequestInv(r)'
<1>1. SamePub(r)
  BY StreamsStay
<1>2. UNCHANGED <<call, remote, response, unsubscribed, updated, closing, answering, reader>>
  BY DEF subVars
<1>3. t # "SUBSCRIBE_DONE" /\ t \in Answers \cup {"SUBSCRIBE_DONE"}
  BY DEF Answers
<1>4. CASE r # s
  <2>1. SameSub(r)
    BY <1>3, <1>4, SubWritten DEF SameSub
  <2>2. SameState(r)
    BY <1>2, <1>4 DEF SameState, Stuck, TypeOK
  <2>. QED  BY <1>1, <2>1, <2>2, Untouched
<1>5. CASE r = s
  <2>1. ~Has(toSub, {"SUBSCRIBE_OK"}, r) /\ ~Has(toSub, {"SUBSCRIBE_ERROR"}, r)
        /\ ~Has(toSub, {"SUBSCRIBE_DONE"}, r) /\ ~Has(toPub, {"SUBSCRIBE"}, r)
    BY <1>5 DEF RequestInv, StreamInv, AcceptedStates
  <2>2. ~Has(toSub, Answers, r)
    BY <2>1 DEF Has, Is, Answers
  <2>3. /\ Once(toSub', Answers, r) /\ Before(toSub', Answers, {"SUBSCRIBE_DONE"}, r)
        /\ Has(toSub', {"SUBSCRIBE_OK"}, r) <=> t = "SUBSCRIBE_OK"
        /\ Has(toSub', {"SUBSCRIBE_ERROR"}, r) <=> t = "SUBSCRIBE_ERROR"
        /\ ~Has(toSub', {"SUBSCRIBE_DONE"}, r)
    BY Zenon, <1>3, <1>5, <2>1, <2>2, SubWritten DEF RequestInv, StreamInv
  <2>4. local[r] = "pending" /\ local'[r] = place
    BY <1>5 DEF TypeOK
  <2>5. /\ remote[r] \in {"none", "pending", "open"} /\ call[r] \in CallStates
        /\ response[r] \in {"none", "nil", "error"}
    BY DEF TypeOK
  <2>6. response[r] = "none" /\ (remote[r] = "pending" \/ (remote[r] = "none" /\ call[r] = "cancelled"))
    BY Zenon, <2>4, <2>5 DEF RequestInv, CallInv, LocalInv, CallStates, Unsent, AcceptedStates
  <2>7. StreamInv(r)'
    BY Zenon, <1>1, <1>2, <2>1, <2>3, <2>4, <2>6 DEF RequestInv, StreamInv, SamePub, AcceptedStates
  <2>8. CallInv(r)'
    BY <1>2, <2>4, <2>6 DEF RequestInv, CallInv, Stuck
  <2>9. LocalInv(r)'
    BY Zenon, <1>2, <1>5, <2>4, <2>6 DEF RequestInv, LocalInv, AcceptedStates
  <2>. QED  BY <2>7, <2>8, <2>9 DEF RequestInv
<1>. QED  BY <1>4, <1>5

LEMMA InvAccept ==
    ASSUME TypeOK, NEW s \in Requests, Accept(s), NEW r \in Requests, RequestInv(r)
    PROVE  RequestInv(r)'
<1>1. "SUBSCRIBE_OK" \in Answers
  BY DEF Answers
<1>. QED  BY Zenon, <1>1, InvAnswer DEF Accept

LEMMA InvReject ==
    ASSUME TypeOK, NEW s \in Requests, Reject(s), NEW r \in Requests, RequestInv(r)
    PROVE  RequestInv(r)'
<1>1. "SUBSCRIBE_ERROR" \in Answers
  BY DEF Answers
<1>. QED  BY Zenon, <1>1, InvAnswer DEF Reject, RejectSubscription

LEMMA InvRejectUnhandled ==
    ASSUME TypeOK, NEW s \in Requests, RejectUnhandled(s), NEW r \in Requests, RequestInv(r)
    PROVE  RequestInv(r)'
<1>1. CASE local[s] = "pending"
  <2>1. "SUBSCRIBE_ERROR" \in Answers
    BY DEF Answers
  <2>. QED  BY Zenon, <1>1, <2>1, InvAnswer DEF RejectUnhandled, RejectSubscription
<1>2. CASE local[s] # "pending"
  <2>1. SamePub(r) /\ SameSub(r)
    BY <1>2, StreamsStay DEF RejectUnhandled
  <2>2. SameState(r)
    BY <1>2 DEF RejectUnhandled, Dies, SameState, Stuck, TypeOK, subVars
  <2>. QED  BY <2>1, <2>2, Untouched
<1>. QED  BY <1>1, <1>2

\* subscriptionDone finds the track, which was accepted before.
LEMMA InvSubscriptionDone ==
    ASSUME TypeOK, NEW s \in Requests, SubscriptionDone(s), RequestInv(s), NEW r \in Requests, RequestInv(r)
    PROVE  RequestInv(r)'
<1>1. local[s] = "open"
  BY DEF SubscriptionDone, RequestInv, LocalInv
<1>2. local' = [local EXCEPT ![s] = "closed"] /\ ToSub("SUBSCRIBE_DONE", s, 0)
  BY <1>1 DEF SubscriptionDone, Known
<1>3. UNCHANGED <<call, remote, response, unsubscribed, updated, handling, answering, reader, toPub>>
  BY DEF SubscriptionDone, subVars
<1>4. SamePub(r)
  BY <1>3, StreamsStay
<1>5. "SUBSCRIBE_DONE" \notin Answers
  BY DEF Answers
<1>6. CASE r # s
  <2>1. SameSub(r)
    BY <1>2, <1>6, SubWritten DEF SameSub
  <2>2. SameState(r)
    BY <1>2, <1>3, <1>6 DEF SubscriptionDone, SameState, Stuck, TypeOK
  <2>. QED  BY <1>4, <2>1, <2>2, Untouched
<1>7. CASE r = s
  <2>1. local[r] = "open" /\ local'[r] = "closed" /\ closing'[r] = "yes"
    BY <1>1, <1>2, <1>7 DEF SubscriptionDone, TypeOK
  <2>2. /\ Once(toSub', Answers, r) /\ Before(toSub', Answers, {"SUBSCRIBE_DONE"}, r)
        /\ Has(toSub', {"SUBSCRIBE_OK"}, r) <=> Has(toSub, {"SUBSCRIBE_OK"}, r)
        /\ Has(toSub', {"SUBSCRIBE_ERROR"}, r) <=> Has(toSub, {"SUBSCRIBE_ERROR"}, r)
        /\ Has(toSub', Answers, r) <=> Has(toSub, Answers, r)
    BY Zenon, <1>2, <1>5, SubWritten DEF RequestInv, StreamInv
  <2>3. StreamInv(r)'
    BY Zenon, <1>3, <1>4, <2>1, <2>2 DEF RequestInv, StreamInv, SamePub, AcceptedStates
  <2>4. CallInv(r)' /\ LocalInv(r)'
    BY Zenon, <1>3, <2>1 DEF RequestInv, CallInv, LocalInv, Stuck, AcceptedStates
  <2>. QED  BY <2>3, <2>4 DEF RequestInv
<1>. QED  BY <1>6, <1>7

LEMMA RequestInductive ==
    ASSUME TypeOK, \A x \in Requests : RequestInv(x), [Next]_vars
    PROVE  (\A x \in Requests : RequestInv(x))'
<1> SUFFICES ASSUME NEW r \in Requests PROVE RequestInv(r)'
  OBVIOUS
<1>1. CASE UNCHANGED vars
  <2>1. SamePub(r) /\ SameSub(r)
    BY <1>1, StreamsStay DEF vars
  <2>2. SameState(r)
    BY <1>1 DEF vars, subVars, pubVars, SameState, Stuck
  <2>. QED  BY <2>1, <2>2, Untouched
<1>2. CASE OnSubscribeOk \/ OnSubscribeError
  <2>1. Head(toSub).id \in Requests
    BY <1>2, SubRead DEF OnSubscribeOk, OnSubscribeError
  <2>. QED  BY Zenon, <1>2, <2>1, InvOnSubscribeOk, InvOnSubscribeError
<1>3. CASE OnSubscribe
  <2>1. Head(toPub).id \in Requests
    BY <1>3, PubRead DEF OnSubscribe
  <2>. QED  BY Zenon, <1>3, <2>1, InvOnSubscribe
<1>4. CASE OnSubscribeDone \/ OnUnsubscribe \/ OnSubscribeUpdate
  BY Zenon, <1>4, InvOnSubscribeDone, InvOnTrackMessage
<1>5. ASSUME NEW s \in Requests, Proceeds(s) PROVE RequestInv(r)'
  <2>1. \A ns \in Namespaces : ns \in {"valid", "invalid"}
    BY RequestsAssumption
  <2>. QED  BY Zenon, <1>5, <2>1, InvSubscribeWrite, InvSubscribeReturns, InvHandler, InvAccept, InvReject,
               InvRejectUnhandled, InvSubscriptionDone DEF Proceeds
<1>6. ASSUME NEW s \in Requests, Chooses(s) PROVE RequestInv(r)'
  BY Zenon, <1>6, InvSubscribeCall, InvSubscribeReturns, InvTrackCalls, InvHandler DEF Chooses
<1>. QED  BY Zenon, <1>1, <1>2, <1>3, <1>4, <1>5, <1>6 DEF Next, SubReader, PubReader

-----------------------------------------------------------------------------
\* A step moves one call, or one local track, or ends one remote track, or
\* does nothing that an application can tell.

CallStep(s) ==
    \E c \in CallStates :
        /\ call' = [call EXCEPT ![s] = c]
        /\ \/ call[s] = "idle" /\ c = "registered"
           \/ call[s] = "registered" /\ c \in {"waiting", "unsent"}
           \/ call[s] = "waiting" /\ c = "established" /\ response[s] = "nil"
           \/ call[s] = "waiting" /\ c = "erring" /\ response[s] = "error"
           \/ call[s] = "waiting" /\ c = "cancelling"
           \/ call[s] = "cancelling" /\ c = "cancelled"
           \/ call[s] = "erring" /\ c = "rejected"

LocalStep(s) ==
    \/ local[s] = "none" /\ local' = [local EXCEPT ![s] = "pending"]
    \/ local[s] = "pending" /\ local' = [local EXCEPT ![s] = "open"]
    \/ local[s] = "pending" /\ local' = [local EXCEPT ![s] = "rejected"]
    \/ local[s] = "open" /\ local' = [local EXCEPT ![s] = "closed"]

DoneStep(s) ==
    /\ local[s] = "closed" /\ remote[s] = "open"
    /\ remoteDone' = [remoteDone EXCEPT ![s] = TRUE]

StepKind ==
    \/ UNCHANGED <<call, local, remoteDone>>
    \/ UNCHANGED <<local, remoteDone>> /\ \E s \in Requests : CallStep(s)
    \/ UNCHANGED <<call, remoteDone>> /\ \E s \in Requests : LocalStep(s)
    \/ UNCHANGED <<call, local>> /\ \E s \in Requests : DoneStep(s)

\* SUBSCRIBE_DONE is read only after SUBSCRIBE_OK, so it finds an open track.
LEMMA DoneFindsOpen ==
    ASSUME TypeOK, \A x \in Requests : RequestInv(x), OnSubscribeDone
    PROVE  LET s == Head(toSub).id IN
           /\ s \in Requests /\ local[s] = "closed"
           /\ remote[s] = "open" \/ (remote[s] = "none" /\ call[s] = "cancelled")
<1> DEFINE s == Head(toSub).id
<1>1. SubReads("SUBSCRIBE_DONE")
  BY DEF OnSubscribeDone
<1>2. s \in Requests /\ Has(toSub, {"SUBSCRIBE_DONE"}, s)
  BY Zenon, <1>1, SubRead
<1>3. RequestInv(s)
  BY <1>2
<1>4. local[s] = "closed" /\ ~Has(toSub, Answers, s)
  <2>1. Before(toSub, Answers, {"SUBSCRIBE_DONE"}, s) /\ local[s] = "closed"
    BY Zenon, <1>2, <1>3 DEF RequestInv, StreamInv
  <2>2. "SUBSCRIBE_DONE" \in {"SUBSCRIBE_DONE"}
    OBVIOUS
  <2>. QED  BY Zenon, <1>1, <2>1, <2>2, SubRead
<1>5. ~Has(toSub, {"SUBSCRIBE_OK"}, s)
  BY <1>4 DEF Has, Is, Answers
<1>6. remote[s] \in {"none", "pending", "open"} /\ call[s] \in CallStates
  BY Zenon, <1>2 DEF TypeOK
<1> HIDE DEF s
<1>7. remote[s] = "none" => call[s] = "cancelled"
  BY <1>3, <1>4, <1>6 DEF RequestInv, CallInv, LocalInv, CallStates, Unsent
<1>8. remote[s] # "pending"
  BY Zenon, <1>3, <1>4, <1>5 DEF RequestInv, StreamInv, AcceptedStates
<1>. QED  BY <1>2, <1>4, <1>6, <1>7, <1>8 DEF s

LEMMA StepKinds ==
    ASSUME TypeOK, \A x \in Requests : RequestInv(x), [Next]_vars
    PROVE  StepKind
<1>1. CASE UNCHANGED vars
  BY <1>1 DEF StepKind, vars, subVars, pubVars
<1>2. CASE OnSubscribeOk \/ OnSubscribeError \/ OnUnsubscribe \/ OnSubscribeUpdate
  BY Zenon, <1>2 DEF OnSubscribeOk, OnSubscribeError, OnUnsubscribe, OnSubscribeUpdate, StepKind, subVars, pubVars
<1>3. CASE OnSubscribeDone
  <2>1. UNCHANGED <<call, local>>
    BY Zenon, <1>3 DEF OnSubscribeDone, pubVars
  <2>2. UNCHANGED remoteDone \/ DoneStep(Head(toSub).id)
    BY Zenon, <1>3, DoneFindsOpen DEF OnSubscribeDone, DoneStep
  <2>. QED  BY Zenon, <1>3, <2>1, <2>2, DoneFindsOpen DEF StepKind
<1>4. CASE OnSubscribe
  <2>1. UNCHANGED <<call, remoteDone>> /\ Head(toPub).id \in Requests
    BY Zenon, <1>4, PubRead DEF OnSubscribe, subVars
  <2>2. local[Head(toPub).id] = "none"
    BY <1>4, <2>1, SubscribeIsNew
  <2>3. UNCHANGED local \/ LocalStep(Head(toPub).id)
    BY Zenon, <1>4, <2>2 DEF OnSubscribe, LocalStep, Known
  <2>. QED  BY Zenon, <2>1, <2>3 DEF StepKind
<1>5. ASSUME NEW s \in Requests, SubscribeCall(s) \/ SubscribeCtxDone(s) \/ SubscribeReject(s)
                              \/ SubscribeResponse(s) \/ \E ns \in Namespaces : SubscribeWrite(s, ns)
      PROVE  StepKind
  <2>1. UNCHANGED <<local, remoteDone>>
    BY <1>5 DEF SubscribeCall, SubscribeCtxDone, SubscribeReject, SubscribeResponse, SubscribeWrite, pubVars
  <2>2. response[s] \in {"none", "nil", "error"} /\ call[s] \in CallStates
    BY DEF TypeOK
  <2>3. CallStep(s)
    BY <1>5, <2>2 DEF SubscribeCall, SubscribeCtxDone, SubscribeReject, SubscribeResponse, SubscribeWrite,
       CallStep, CallStates
  <2>. QED  BY <2>1, <2>3 DEF StepKind
<1>6. ASSUME NEW s \in Requests, Accept(s) \/ Reject(s) \/ RejectUnhandled(s) \/ SubscriptionDone(s)
      PROVE  StepKind
  <2>1. UNCHANGED <<call, remoteDone>>
    BY <1>6 DEF Accept, Reject, RejectUnhandled, SubscriptionDone, subVars
  <2>2. SubscriptionDone(s) => local[s] = "open"
    BY Zenon DEF SubscriptionDone, RequestInv, LocalInv
  <2>3. UNCHANGED local \/ LocalStep(s)
    BY <1>6, <2>2 DEF Accept, Reject, RejectUnhandled, RejectSubscription, SubscriptionDone, LocalStep
  <2>. QED  BY <2>1, <2>3 DEF StepKind
<1>7. ASSUME NEW s \in Requests, Unsubscribe(s) \/ UpdateSubscription(s) \/ Answer(s) \/ HandlerReturn(s)
                              \/ CloseCancel(s)
      PROVE  StepKind
  BY Zenon, <1>7 DEF Unsubscribe, UpdateSubscription, Answer, HandlerReturn, CloseCancel, StepKind, subVars, pubVars
<1>. QED  BY Zenon, <1>1, <1>2, <1>3, <1>4, <1>5, <1>6, <1>7
          DEF Next, SubReader, PubReader, Proceeds, Chooses

\* What is over stays over.
LEMMA Settled ==
    ASSUME TypeOK, \A x \in Requests : RequestInv(x), [Next]_vars
    PROVE  /\ \A r \in Requests : local[r] = "closed" => local'[r] = "closed"
           /\ \A r \in Requests : call[r] = "cancelled" => call'[r] = "cancelled"
           /\ unsubscribed \subseteq unsubscribed' /\ updated \subseteq updated'
           /\ answering \subseteq answering' /\ unhandled \subseteq unhandled'
<1>1. StepKind
  BY StepKinds
<1>2. call \in [Requests -> CallStates]
      /\ local \in [Requests -> {"none", "pending", "open", "rejected", "closed"}]
  BY DEF TypeOK
<1>3. ASSUME NEW r \in Requests, local[r] = "closed" PROVE local'[r] = "closed"
  BY <1>1, <1>2, <1>3 DEF StepKind, LocalStep
<1>4. ASSUME NEW r \in Requests, call[r] = "cancelled" PROVE call'[r] = "cancelled"
  BY <1>1, <1>2, <1>4 DEF StepKind, CallStep
<1>5. /\ unsubscribed \subseteq unsubscribed' /\ updated \subseteq updated'
      /\ answering \subseteq answering' /\ unhandled \subseteq unhandled'
  BY Zenon DEF Next, SubReader, PubReader, Proceeds, Chooses, SubscribeCall, SubscribeWrite,
     SubscribeResponse, SubscribeCtxDone, SubscribeReject, Unsubscribe, UpdateSubscription,
     OnSubscribeOk, OnSubscribeError, OnSubscribeDone, OnSubscribe, OnUnsubscribe, OnSubscribeUpdate,
     Answer, Accept, Reject, HandlerReturn, RejectUnhandled, CloseCancel, SubscriptionDone,
     vars, subVars, pubVars
<1>. QED  BY <1>3, <1>4, <1>5

LEMMA OpenStays ==
    ASSUME TypeOK, [Next]_vars, NEW r \in Requests, remote[r] = "open"
    PROVE  remote'[r] = "open"
<1>1. remote \in [Requests -> {"none", "pending", "open"}]
  BY DEF TypeOK
<1>2. CASE UNCHANGED remote
  BY <1>2
<1>3. ASSUME NEW s \in Requests, SubscribeCall(s) \/ SubscribeReject(s) PROVE remote'[r] = "open"
  BY <1>1, <1>3 DEF SubscribeCall, AddPendingWithAlias, SubscribeReject
<1>4. CASE OnSubscribeOk \/ OnSubscribeError
  BY <1>1, <1>4 DEF OnSubscribeOk, OnSubscribeError
<1>5. \/ UNCHANGED remote \/ OnSubscribeOk \/ OnSubscribeError
      \/ \E s \in Requests : SubscribeCall(s) \/ SubscribeReject(s)
  BY Zenon DEF Next, SubReader, PubReader, Proceeds, Chooses, SubscribeWrite,
     SubscribeResponse, SubscribeCtxDone, Unsubscribe, UpdateSubscription,
     OnSubscribeDone, OnSubscribe, OnUnsubscribe, OnSubscribeUpdate, Answer, Accept,
     Reject, HandlerReturn, RejectUnhandled, CloseCancel, SubscriptionDone, vars, subVars
<1>. QED  BY <1>2, <1>3, <1>4, <1>5

LEMMA DoneInductive ==
    ASSUME TypeOK, \A x \in Requests : RequestInv(x), DoneAfterOk, [Next]_vars
    PROVE  DoneAfterOk'
<1>1. StepKind
  BY StepKinds
<1>2. /\ \A r \in Requests : local[r] = "closed" => local'[r] = "closed"
      /\ \A r \in Requests : remote[r] = "open" => remote'[r] = "open"
  BY Settled, OpenStays
<1>3. \A r \in Requests : remoteDone'[r] => remoteDone[r] \/ (local[r] = "closed" /\ remote[r] = "open")
  BY Zenon, <1>1 DEF StepKind, DoneStep, TypeOK
<1>. QED  BY Zenon, <1>2, <1>3 DEF DoneAfterOk

\* Who ends a control reader with errUnknownRequestID.
LEMMA ReaderFacts ==
    ASSUME TypeOK, NEW err
    PROVE  /\ Dies("subscriber", err) => reader'["subscriber"] = err /\ reader'["publisher"] = reader["publisher"]
           /\ Dies("publisher", err) => reader'["publisher"] = err /\ reader'["subscriber"] = reader["subscriber"]
BY DEF TypeOK, Dies

LEMMA UnknownInductive ==
    ASSUME TypeOK, \A x \in Requests : RequestInv(x), UnknownOnlyAfterClose, [Next]_vars
    PROVE  UnknownOnlyAfterClose'
<1> DEFINE Cancelled == \E r \in Requests : call[r] = "cancelled"
           Closed == \E r \in Requests : local[r] = "closed" /\ r \in unsubscribed \cup updated
           Raced == unhandled \cap answering # {}
<1>1. (Cancelled => Cancelled') /\ (Closed => Closed') /\ (Raced => Raced')
  <2>1. (Cancelled => Cancelled') /\ (Closed => Closed')
    BY Settled
  <2>2. Raced => Raced'
    BY Settled
  <2>. QED  BY <2>1, <2>2
<1>2. ASSUME reader'["subscriber"] = "errUnknownRequestID", reader["subscriber"] # "errUnknownRequestID"
      PROVE  Cancelled
  <2>1. OnSubscribeOk \/ OnSubscribeError \/ OnSubscribeDone
    BY Zenon, <1>2, ReaderFacts
    DEF Next, SubReader, PubReader, Proceeds, Chooses, SubscribeCall, SubscribeWrite,
       SubscribeResponse, SubscribeCtxDone, SubscribeReject, Unsubscribe, UpdateSubscription,
       OnSubscribe, OnUnsubscribe, OnSubscribeUpdate, Answer, Accept, Reject, HandlerReturn,
       RejectUnhandled, CloseCancel, SubscriptionDone, vars
  <2>2. ASSUME OnSubscribeOk \/ OnSubscribeError PROVE Cancelled
    <3> DEFINE s == Head(toSub).id
    <3>1. s \in Requests /\ Has(toSub, Answers, s)
      <4>1. /\ SubReads("SUBSCRIBE_OK") \/ SubReads("SUBSCRIBE_ERROR")
            /\ "SUBSCRIBE_OK" \in Answers /\ "SUBSCRIBE_ERROR" \in Answers
        BY <2>2 DEF OnSubscribeOk, OnSubscribeError, Answers
      <4>. QED  BY Zenon, <4>1, AnswerRead
    <3>2. remote[s] # "pending"
      BY <1>2, <2>2, ReaderFacts DEF OnSubscribeOk, OnSubscribeError
    <3> HIDE DEF s
    <3>3. call[s] = "cancelled"
      BY Zenon, <3>1, <3>2 DEF RequestInv, StreamInv
    <3>. QED  BY <3>1, <3>3
  <2>3. ASSUME OnSubscribeDone PROVE Cancelled
    <3>1. remote[Head(toSub).id] = "none"
      BY <1>2, <2>3 DEF OnSubscribeDone
    <3>. QED  BY <2>3, <3>1, DoneFindsOpen
  <2>. QED  BY <2>1, <2>2, <2>3
<1>3. ASSUME reader'["publisher"] = "errUnknownRequestID", reader["publisher"] # "errUnknownRequestID"
      PROVE  Closed \/ Raced
  <2>1. OnUnsubscribe \/ OnSubscribeUpdate \/ \E s \in Requests : RejectUnhandled(s)
    <3>1. OnSubscribe => reader'["publisher"] # "errUnknownRequestID" \/ UNCHANGED reader
      BY ReaderFacts DEF OnSubscribe
    <3>. QED  BY Zenon, <1>3, <3>1, ReaderFacts
      DEF Next, SubReader, PubReader, Proceeds, Chooses, SubscribeCall, SubscribeWrite,
         SubscribeResponse, SubscribeCtxDone, SubscribeReject, Unsubscribe, UpdateSubscription,
         OnSubscribeOk, OnSubscribeError, OnSubscribeDone, Answer, Accept, Reject, HandlerReturn,
         CloseCancel, SubscriptionDone, vars
  <2>2. ASSUME OnUnsubscribe \/ OnSubscribeUpdate PROVE Closed
    <3> DEFINE s == Head(toPub).id
    <3>1. s \in Requests /\ (Has(toPub, {"UNSUBSCRIBE"}, s) \/ Has(toPub, {"SUBSCRIBE_UPDATE"}, s))
      BY Zenon, <2>2, PubRead DEF OnUnsubscribe, OnSubscribeUpdate
    <3>2. ~Known(s)
      BY Zenon, <1>3, <2>2 DEF OnUnsubscribe, OnSubscribeUpdate
    <3> HIDE DEF s
    <3>3. s \in unsubscribed \cup updated /\ local[s] \in AcceptedStates
      BY Zenon, <3>1 DEF RequestInv, StreamInv, LocalInv
    <3>4. local[s] = "closed"
      BY <3>2, <3>3 DEF Known, AcceptedStates
    <3>. QED  BY <3>1, <3>3, <3>4
  <2>3. ASSUME NEW s \in Requests, RejectUnhandled(s) PROVE Raced
    <3>1. s \in handling /\ s \in unhandled /\ local[s] # "pending"
      BY <1>3, <2>3 DEF RejectUnhandled
    <3>2. s \in answering
      BY <3>1 DEF RequestInv, LocalInv
    <3>. QED  BY <3>1, <3>2
  <2>. QED  BY <2>1, <2>2, <2>3
<1>. QED  BY <1>1, <1>2, <1>3 DEF UnknownOnlyAfterClose

LEMMA InvIsInvariant == Spec => []SubscribeInv
<1>1. Init => SubscribeInv
  <2> SUFFICES ASSUME Init PROVE SubscribeInv
    OBVIOUS
  <2>1. TypeOK
    BY DEF Init, TypeOK, CallStates, Errors
  <2>2. ASSUME NEW r \in Requests PROVE RequestInv(r)
    <3>1. \A T : ~Has(toPub, T, r) /\ ~Has(toSub, T, r)
      BY DEF Init, Has
    <3>2. /\ Once(toPub, {"SUBSCRIBE"}, r) /\ Once(toSub, Answers, r)
          /\ Before(toSub, Answers, {"SUBSCRIBE_DONE"}, r)
      BY DEF Init, Once, Before
    <3>3. /\ call[r] = "idle" /\ remote[r] = "none" /\ response[r] = "none" /\ local[r] = "none"
          /\ closing[r] = "no" /\ handling = {} /\ unsubscribed = {} /\ updated = {}
      BY DEF Init
    <3>. QED  BY Zenon, <3>1, <3>2, <3>3 DEF RequestInv, StreamInv, CallInv, LocalInv, AcceptedStates
  <2>3. DoneAfterOk
    BY Zenon DEF Init, DoneAfterOk
  <2>4. UnknownOnlyAfterClose
    BY DEF Init, UnknownOnlyAfterClose
  <2>. QED  BY <2>1, <2>2, <2>3, <2>4 DEF SubscribeInv
<1>2. SubscribeInv /\ [Next]_vars => SubscribeInv'
  <2> SUFFICES ASSUME SubscribeInv, [Next]_vars PROVE SubscribeInv'
    OBVIOUS
  <2>1. TypeOK /\ (\A r \in Requests : RequestInv(r)) /\ DoneAfterOk /\ UnknownOnlyAfterClose
    BY DEF SubscribeInv
  <2>2. TypeOK'
    BY <2>1, TypeInductive
  <2>3. (\A r \in Requests : RequestInv(r))'
    BY <2>1, RequestInductive
  <2>4. DoneAfterOk'
    BY <2>1, DoneInductive
  <2>5. UnknownOnlyAfterClose'
    BY <2>1, UnknownInductive
  <2>. QED  BY <2>2, <2>3, <2>4, <2>5 DEF SubscribeInv
<1>. QED  BY <1>1, <1>2, PTL DEF Spec

-----------------------------------------------------------------------------
\* The local tracks

\* What a step does to the local track of request r.
TrackMove(r) ==
    \/ local'[r] = local[r] /\ closing'[r] = closing[r] /\ (localCtx'[r] = "live" => localCtx[r] = "live")
    \/ local[r] = "none" /\ local'[r] = "pending" /\ closing'[r] = closing[r]
    \/ /\ local[r] = "pending" /\ local'[r] \in {"open", "rejected"}
       /\ closing'[r] = closing[r] /\ localCtx'[r] = localCtx[r]
    \/ /\ local[r] = "open" /\ local'[r] = "open" /\ localCtx'[r] # "live"
       /\ closing[r] = "no" /\ closing'[r] = "cancelled"
    \/ /\ local[r] = "open" /\ local'[r] = "closed" /\ localCtx'[r] = localCtx[r]
       /\ closing[r] = "cancelled" /\ closing'[r] = "yes"

LEMMA TrackMoves ==
    ASSUME TypeOK, \A x \in Requests : RequestInv(x), [Next]_vars, NEW r \in Requests
    PROVE  TrackMove(r)
<1>0. /\ local \in [Requests -> {"none", "pending", "open", "rejected", "closed"}]
      /\ localCtx \in [Requests -> {"none", "live", "unsubscribed", "done"}]
      /\ closing \in [Requests -> {"no", "cancelled", "yes"}]
  BY DEF TypeOK
<1>1. CASE UNCHANGED <<local, closing, localCtx>>
  BY <1>1 DEF TrackMove
<1>2. CASE OnSubscribe
  <2>1. Head(toPub).id \in Requests
    BY Zenon, <1>2, PubRead DEF OnSubscribe
  <2>2. local[Head(toPub).id] = "none"
    BY <1>2, <2>1, SubscribeIsNew
  <2>3. /\ closing' = closing
        /\ \/ UNCHANGED <<local, localCtx>>
           \/ /\ local' = [local EXCEPT ![Head(toPub).id] = "pending"]
              /\ localCtx' = [localCtx EXCEPT ![Head(toPub).id] = "live"]
    BY Zenon, <1>2 DEF OnSubscribe
  <2>. QED  BY <1>0, <2>1, <2>2, <2>3 DEF TrackMove
<1>3. CASE OnUnsubscribe
  <2>1. Head(toPub).id \in Requests
    BY Zenon, <1>3, PubRead DEF OnUnsubscribe
  <2>2. /\ UNCHANGED <<local, closing>>
        /\ \/ UNCHANGED localCtx
           \/ localCtx' = [localCtx EXCEPT ![Head(toPub).id] =
                              IF localCtx[Head(toPub).id] = "live" THEN "unsubscribed" ELSE localCtx[Head(toPub).id]]
    BY Zenon, <1>3 DEF OnUnsubscribe
  <2>. QED  BY <1>0, <2>1, <2>2 DEF TrackMove
<1>4. ASSUME NEW s \in Requests, Accept(s) \/ Reject(s) \/ RejectUnhandled(s) PROVE TrackMove(r)
  BY <1>0, <1>4 DEF Accept, Reject, RejectUnhandled, RejectSubscription, TrackMove
<1>5. ASSUME NEW s \in Requests, SubscriptionDone(s) PROVE TrackMove(r)
  <2>1. local[s] = "open"
    BY Zenon, <1>5 DEF SubscriptionDone, RequestInv, LocalInv
  <2>. QED  BY <1>0, <1>5, <2>1 DEF SubscriptionDone, Known, TrackMove
<1>6. ASSUME NEW s \in Requests, CloseCancel(s) PROVE TrackMove(r)
  BY <1>0, <1>6 DEF CloseCancel, TrackMove
<1>7. \/ UNCHANGED <<local, closing, localCtx>>
      \/ OnSubscribe \/ OnUnsubscribe
      \/ \E s \in Requests : Accept(s) \/ Reject(s) \/ RejectUnhandled(s) \/ SubscriptionDone(s) \/ CloseCancel(s)
  <2>1. ASSUME OnSubscribeOk \/ OnSubscribeError \/ OnSubscribeDone \/ OnSubscribeUpdate
        PROVE  UNCHANGED <<local, closing, localCtx>>
    BY Zenon, <2>1 DEF OnSubscribeOk, OnSubscribeError, OnSubscribeDone, OnSubscribeUpdate, pubVars
  <2>2. ASSUME NEW s \in Requests,
               \/ SubscribeCall(s) \/ SubscribeCtxDone(s) \/ Unsubscribe(s) \/ UpdateSubscription(s) \/ Answer(s)
               \/ SubscribeResponse(s) \/ SubscribeReject(s) \/ HandlerReturn(s)
               \/ \E ns \in Namespaces : SubscribeWrite(s, ns)
        PROVE  UNCHANGED <<local, closing, localCtx>>
    BY Zenon, <2>2 DEF SubscribeCall, SubscribeCtxDone, Unsubscribe, UpdateSubscription, Answer, SubscribeResponse,
       SubscribeReject, HandlerReturn, SubscribeWrite, pubVars
  <2>3. UNCHANGED vars => UNCHANGED <<local, closing, localCtx>>
    BY DEF vars, pubVars
  <2>. QED  BY Zenon, <2>1, <2>2, <2>3 DEF Next, SubReader, PubReader, Proceeds, Chooses
<1>. QED  BY Zenon, <1>1, <1>2, <1>3, <1>4, <1>5, <1>6, <1>7
=============================================================================
