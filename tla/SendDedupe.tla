----------------------------- MODULE SendDedupe -----------------------------
(* The send call (rpc_send in crates/gateway-core/src/http.rs): one message  *)
(* to a channel, at most once per idempotency key.  A call with a key holds  *)
(* the key's gate from its look at send_dedupe until it returns; only a send *)
(* the channel confirmed is remembered.                                      *)
EXTENDS Naturals, FiniteSets, TLAPS

CONSTANTS
    Calls,      \* the send calls
    Keyless,    \* those without an idempotency key
    Keys,       \* idempotency keys
    KeyOf,      \* the key of each call that has one
    None        \* no call

VARIABLES
    pc,         \* where each call is
    reply,      \* what it was answered
    gate,       \* who holds the gate of each key
    dedupe,     \* send_dedupe: the call whose payload is kept for a key
    delivered,  \* history: the calls whose message reached the channel
    context     \* the delivery context of the session: the last call that saved it

vars == <<pc, reply, gate, dedupe, delivered, context>>

Init ==
    /\ pc = [r \in Calls |-> "new"] /\ reply = [r \in Calls |-> None]
    /\ gate = [k \in Keys |-> None] /\ dedupe = [k \in Keys |-> None]
    /\ delivered = {} /\ context = None

-----------------------------------------------------------------------------
\* Bad parameters are refused before the gate.
Refuse(r) ==
    /\ pc[r] = "new"
    /\ pc' = [pc EXCEPT ![r] = "done"] /\ reply' = [reply EXCEPT ![r] = "error"]
    /\ UNCHANGED <<gate, dedupe, delivered, context>>

\* Mutant: the gate is not waited for.
TakeGateAtOnce(r) ==
    /\ pc[r] = "new"
    /\ pc' = [pc EXCEPT ![r] = "gated"]
    /\ gate' = IF r \in Keyless THEN gate ELSE [gate EXCEPT ![KeyOf[r]] = r]
    /\ UNCHANGED <<reply, dedupe, delivered, context>>

TakeGate(r) ==
    /\ pc[r] = "new"
    /\ r \notin Keyless => gate[KeyOf[r]] = None
    /\ pc' = [pc EXCEPT ![r] = "gated"]
    /\ gate' = IF r \in Keyless THEN gate ELSE [gate EXCEPT ![KeyOf[r]] = r]
    /\ UNCHANGED <<reply, dedupe, delivered, context>>

\* The call returns and the permit is dropped.
Return(r, answer) ==
    /\ pc' = [pc EXCEPT ![r] = "done"]
    /\ reply' = [reply EXCEPT ![r] = answer]
    /\ gate' = IF r \in Keyless THEN gate ELSE [gate EXCEPT ![KeyOf[r]] = None]

\* A payload kept for the key is the answer; else the channel is resolved, which may fail.
CheckDedupe(r) ==
    /\ pc[r] = "gated"
    /\ IF r \notin Keyless /\ dedupe[KeyOf[r]] # None
       THEN Return(r, dedupe[KeyOf[r]])
       ELSE \/ Return(r, "error")
            \/ pc' = [pc EXCEPT ![r] = "sending"] /\ UNCHANGED <<reply, gate>>
    /\ UNCHANGED <<dedupe, delivered, context>>

\* The channel takes the message and confirms it.
Send(r) ==
    /\ pc[r] = "sending"
    /\ delivered' = delivered \cup {r}
    /\ pc' = [pc EXCEPT ![r] = "sent"]
    /\ UNCHANGED <<reply, gate, dedupe, context>>

\* Mutant: a failed send is remembered as well.
SendFailsForGood(r) ==
    /\ pc[r] = "sending"
    /\ delivered' \in {delivered, delivered \cup {r}}
    /\ dedupe' = IF r \in Keyless THEN dedupe ELSE [dedupe EXCEPT ![KeyOf[r]] = r]
    /\ Return(r, "error")
    /\ UNCHANGED context

\* The channel answers with an error, and the message may have gone out all the same.
SendFails(r) ==
    /\ pc[r] = "sending"
    /\ delivered' \in {delivered, delivered \cup {r}}
    /\ Return(r, "error")
    /\ UNCHANGED <<dedupe, context>>

\* Mutant: the payload is not kept.
RememberNothing(r) ==
    /\ pc[r] = "sent"
    /\ pc' = [pc EXCEPT ![r] = "remembered"]
    /\ UNCHANGED <<reply, gate, dedupe, delivered, context>>

Remember(r) ==
    /\ pc[r] = "sent"
    /\ dedupe' = IF r \in Keyless THEN dedupe ELSE [dedupe EXCEPT ![KeyOf[r]] = r]
    /\ pc' = [pc EXCEPT ![r] = "remembered"]
    /\ UNCHANGED <<reply, gate, delivered, context>>

\* persist_session_delivery_context, whose errors are ignored, and the answer.
Finish(r) ==
    /\ pc[r] = "remembered"
    /\ context' \in {context, r}
    /\ Return(r, r)
    /\ UNCHANGED <<dedupe, delivered>>

-----------------------------------------------------------------------------
Call(r) == TakeGate(r) \/ CheckDedupe(r) \/ Send(r) \/ SendFails(r) \/ Remember(r) \/ Finish(r)

Next == \E r \in Calls : Refuse(r) \/ Call(r)

Spec == Init /\ [][Next]_vars

-----------------------------------------------------------------------------
TypeOK ==
    /\ pc \in [Calls -> {"new", "gated", "sending", "sent", "remembered", "done"}]
    /\ reply \in [Calls -> Calls \cup {"error", None}]
    /\ gate \in [Keys -> Calls \cup {None}] /\ dedupe \in [Keys -> Calls \cup {None}]
    /\ delivered \subseteq Calls /\ context \in Calls \cup {None}

\* Two messages of one key reach the channel only when the earlier one was answered with
\* an error: a send that was confirmed, or is still under way, is never repeated by a retry.
RepeatedOnlyAfterError ==
    \A r, q \in delivered \ Keyless : KeyOf[r] = KeyOf[q] /\ r # q => "error" \in {reply[r], reply[q]}

\* The answer of a call names a message that went out.
AnswersWereDelivered == \A r \in Calls : reply[r] \in Calls => reply[r] \in delivered

Work ==
    [k \in Keys |-> IF dedupe[k] # None THEN dedupe[k]
                    ELSE IF \E r \in Calls \ Keyless : KeyOf[r] = k /\ pc[r] \in {"sending", "sent"} THEN "running"
                    ELSE "idle"]

Once == INSTANCE OnceByKey WITH
    Callers <- Calls \ Keyless, Outcomes <- Calls, Retries <- TRUE, work <- Work,
    told <- [r \in Calls \ Keyless |-> IF reply[r] \in Calls THEN reply[r] ELSE "nothing"]

\* The send call implements the promise of the key, where a send that failed is work given
\* up: one send at a time, none after one that was confirmed, and every retry is told of
\* the same message.
ImplementsOnceByKey == Once!Spec

\* Its parts, for a specification that has this one beside others.
OnceInit == Once!Init
OnceStep == [Once!Next]_(Once!vars)

-----------------------------------------------------------------------------
(* Proof of the refinement, for any number of calls and keys.                *)

\* What the names stand for: a call that has a key has one of Keys, and neither None nor
\* an error is the payload of a call.
NamesAreDistinct ==
    /\ \A r \in Calls \ Keyless : KeyOf[r] \in Keys
    /\ None \notin Calls /\ "error" \notin Calls

Keyed == Calls \ Keyless
InGate(r) == pc[r] \in {"gated", "sending", "sent", "remembered"}

\* Whoever is between the gate and the answer holds the gate of its key.
GateIsHeld == \A r \in Keyed : InGate(r) => gate[KeyOf[r]] = r

\* What a call in the gate has found or done about its key still holds, and it has told
\* nobody anything.
GatedIsCurrent ==
    /\ \A r \in Keyed : pc[r] \in {"sending", "sent"} => dedupe[KeyOf[r]] = None
    /\ \A r \in Keyed : pc[r] = "remembered" => dedupe[KeyOf[r]] = r
    /\ \A r \in Calls : pc[r] # "done" => reply[r] = None

\* The inductive invariant.
SendInv == TypeOK /\ GateIsHeld /\ GatedIsCurrent

\* Two calls of one key are not both in the gate.
LEMMA GateExcludes ==
    ASSUME GateIsHeld, NEW r \in Keyed, NEW q \in Keyed, InGate(r), InGate(q), KeyOf[r] = KeyOf[q]
    PROVE  r = q
  BY DEF GateIsHeld

\* Every step keeps the types.
LEMMA TypeStep == ASSUME NamesAreDistinct, TypeOK, [Next]_vars PROVE TypeOK'
  <1> USE DEF NamesAreDistinct
  <1>1. ASSUME NEW r \in Calls, NEW a \in Calls \cup {"error", None}, Return(r, a)
        PROVE  /\ pc' \in [Calls -> {"new", "gated", "sending", "sent", "remembered", "done"}]
               /\ reply' \in [Calls -> Calls \cup {"error", None}]
               /\ gate' \in [Keys -> Calls \cup {None}]
    BY <1>1 DEF Return, TypeOK
  <1>2. ASSUME NEW r \in Calls, Refuse(r) PROVE TypeOK'
    BY <1>2 DEF Refuse, TypeOK
  <1>3. ASSUME NEW r \in Calls, TakeGate(r) PROVE TypeOK'
    BY <1>3 DEF TakeGate, TypeOK
  <1>4. ASSUME NEW r \in Calls, CheckDedupe(r) PROVE TypeOK'
    <2>1. r \notin Keyless => dedupe[KeyOf[r]] \in Calls \cup {"error", None}
      BY DEF TypeOK
    <2>2. CASE r \notin Keyless /\ dedupe[KeyOf[r]] # None
      BY <1>1, <1>4, <2>1, <2>2 DEF CheckDedupe, TypeOK
    <2>3. CASE Return(r, "error")
      BY <1>1, <1>4, <2>3 DEF CheckDedupe, TypeOK
    <2>4. CASE pc' = [pc EXCEPT ![r] = "sending"] /\ UNCHANGED <<reply, gate>>
      BY <1>4, <2>4 DEF CheckDedupe, TypeOK
    <2> QED BY <1>4, <2>2, <2>3, <2>4 DEF CheckDedupe
  <1>5. ASSUME NEW r \in Calls, Send(r) PROVE TypeOK'
    BY <1>5 DEF Send, TypeOK
  <1>6. ASSUME NEW r \in Calls, SendFails(r) PROVE TypeOK'
    BY <1>1, <1>6 DEF SendFails, TypeOK
  <1>7. ASSUME NEW r \in Calls, Remember(r) PROVE TypeOK'
    BY <1>7 DEF Remember, TypeOK
  <1>8. ASSUME NEW r \in Calls, Finish(r) PROVE TypeOK'
    BY <1>1, <1>8 DEF Finish, TypeOK
  <1>9. CASE UNCHANGED vars
    BY <1>9 DEF vars, TypeOK
  <1> QED BY <1>2, <1>3, <1>4, <1>5, <1>6, <1>7, <1>8, <1>9 DEF Next, Call

\* Every step keeps the invariant.
LEMMA SendStep == ASSUME NamesAreDistinct, SendInv, [Next]_vars PROVE SendInv'
  <1> USE DEF NamesAreDistinct, Keyed
  <1>0. TypeOK /\ TypeOK'
    BY TypeStep DEF SendInv
  <1>1. ASSUME NEW r \in Calls, NEW a, InGate(r), Return(r, a), dedupe' = dedupe PROVE SendInv'
    <2>1. \A q \in Keyed : q # r /\ r \in Keyed /\ InGate(q) => KeyOf[q] # KeyOf[r]
      BY <1>1, GateExcludes DEF SendInv
    <2>2. \A q \in Calls : pc'[q] = IF q = r THEN "done" ELSE pc[q]
      BY <1>0, <1>1 DEF Return, TypeOK
    <2>3. \A q \in Calls : q # r => reply'[q] = reply[q]
      BY <1>0, <1>1 DEF Return, TypeOK
    <2>4. GateIsHeld'
      BY <1>0, <1>1, <2>1, <2>2 DEF SendInv, GateIsHeld, InGate, Return, TypeOK
    <2>5. GatedIsCurrent'
      BY <1>1, <2>2, <2>3 DEF SendInv, GatedIsCurrent
    <2> QED BY <1>0, <2>4, <2>5 DEF SendInv
  <1>2. ASSUME NEW r \in Calls, Refuse(r) PROVE SendInv'
    <2>1. GateIsHeld'
      BY <1>0, <1>2 DEF Refuse, SendInv, GateIsHeld, InGate, TypeOK
    <2>2. GatedIsCurrent'
      BY <1>0, <1>2 DEF Refuse, SendInv, GatedIsCurrent, TypeOK
    <2> QED BY <1>0, <2>1, <2>2 DEF SendInv
  <1>3. ASSUME NEW r \in Calls, TakeGate(r) PROVE SendInv'
    <2>1. GateIsHeld'
      BY <1>0, <1>3 DEF TakeGate, SendInv, GateIsHeld, InGate, TypeOK
    <2>2. GatedIsCurrent'
      BY <1>0, <1>3 DEF TakeGate, SendInv, GatedIsCurrent, TypeOK
    <2> QED BY <1>0, <2>1, <2>2 DEF SendInv
  <1>4. ASSUME NEW r \in Calls, CheckDedupe(r) PROVE SendInv'
    <2>1. InGate(r) /\ dedupe' = dedupe
      BY <1>4 DEF CheckDedupe, InGate
    <2>2. ASSUME NEW a, Return(r, a) PROVE SendInv'
      BY <1>1, <2>1, <2>2
    <2>3. CASE /\ r \in Keyed => dedupe[KeyOf[r]] = None
               /\ pc' = [pc EXCEPT ![r] = "sending"] /\ UNCHANGED <<reply, gate>>
      <3>1. GateIsHeld'
        BY <1>0, <2>1, <2>3 DEF SendInv, GateIsHeld, InGate, TypeOK
      <3>2. reply[r] = None
        BY <2>1 DEF SendInv, GatedIsCurrent, InGate
      <3>3. GatedIsCurrent'
        BY <1>0, <2>1, <2>3, <3>2 DEF SendInv, GatedIsCurrent, TypeOK
      <3> QED BY <1>0, <3>1, <3>3 DEF SendInv
    <2> QED BY <1>4, <2>2, <2>3 DEF CheckDedupe
  <1>5. ASSUME NEW r \in Calls, Send(r) PROVE SendInv'
    <2>1. GateIsHeld'
      BY <1>0, <1>5 DEF Send, SendInv, GateIsHeld, InGate, TypeOK
    <2>2. GatedIsCurrent'
      BY <1>0, <1>5 DEF Send, SendInv, GatedIsCurrent, TypeOK
    <2> QED BY <1>0, <2>1, <2>2 DEF SendInv
  <1>6. ASSUME NEW r \in Calls, SendFails(r) PROVE SendInv'
    BY <1>1, <1>6 DEF SendFails, InGate
  <1>7. ASSUME NEW r \in Calls, Remember(r) PROVE SendInv'
    <2>1. InGate(r) /\ pc[r] # "done" /\ reply' = reply /\ gate' = gate
      BY <1>7 DEF Remember, InGate
    <2>2. \A q \in Keyed : q # r /\ r \in Keyed /\ InGate(q) => KeyOf[q] # KeyOf[r]
      BY <2>1, GateExcludes DEF SendInv
    <2>3. \A q \in Calls : pc'[q] = IF q = r THEN "remembered" ELSE pc[q]
      BY <1>0, <1>7 DEF Remember, TypeOK
    <2>4. \A k \in Keys : dedupe'[k] = IF r \in Keyed /\ k = KeyOf[r] THEN r ELSE dedupe[k]
      BY <1>0, <1>7 DEF Remember, TypeOK
    <2>5. GateIsHeld'
      BY <2>1, <2>3 DEF SendInv, GateIsHeld, InGate
    <2>6. GatedIsCurrent'
      BY <2>1, <2>2, <2>3, <2>4 DEF SendInv, GatedIsCurrent, InGate
    <2> QED BY <1>0, <2>5, <2>6 DEF SendInv
  <1>8. ASSUME NEW r \in Calls, Finish(r) PROVE SendInv'
    BY <1>1, <1>8 DEF Finish, InGate
  <1>9. CASE UNCHANGED vars
    BY <1>0, <1>9 DEF vars, SendInv, GateIsHeld, InGate, GatedIsCurrent
  <1> QED BY <1>2, <1>3, <1>4, <1>5, <1>6, <1>7, <1>8, <1>9 DEF Next, Call

Told == [r \in Calls \ Keyless |-> IF reply[r] \in Calls THEN reply[r] ELSE "nothing"]

\* What a step of the send call is to its key.
LEMMA MappedStep == ASSUME NamesAreDistinct, SendInv, [Next]_vars PROVE [Once!Next]_(Once!vars)
  <1> USE DEF NamesAreDistinct, Keyed
  <1>0. TypeOK
    BY DEF SendInv
  <1>1. ASSUME Work' = Work, Told' = Told PROVE [Once!Next]_(Once!vars)
    BY <1>1 DEF Once!vars, Told
  <1>2. ASSUME reply' = reply PROVE Told' = Told
    BY <1>2 DEF Told
  <1>3. ASSUME NEW r \in Calls, NEW a, pc[r] # "done", reply' = [reply EXCEPT ![r] = a]
        PROVE  /\ r \in Keyed => Told[r] = "nothing"
               /\ Told' = IF r \in Keyed /\ a \in Calls THEN [Told EXCEPT ![r] = a] ELSE Told
    <2>1. reply[r] = None
      BY <1>3 DEF SendInv, GatedIsCurrent
    <2> QED BY <1>0, <1>3, <2>1 DEF Told, TypeOK
  <1>4. ASSUME dedupe' = dedupe, NEW r \in Calls, NEW s, pc' = [pc EXCEPT ![r] = s],
               pc[r] \in {"sending", "sent"} <=> s \in {"sending", "sent"}
        PROVE  Work' = Work
    <2>1. \A q \in Calls : pc'[q] \in {"sending", "sent"} <=> pc[q] \in {"sending", "sent"}
      BY <1>0, <1>4 DEF TypeOK
    <2> QED BY <1>4, <2>1 DEF Work
  <1>5. ASSUME NEW r \in Keyed, InGate(r), NEW k \in Keys, KeyOf[r] = k, dedupe[k] = None
        PROVE  Work[k] = IF pc[r] \in {"sending", "sent"} THEN "running" ELSE "idle"
    <2>1. \A q \in Keyed : KeyOf[q] = k /\ pc[q] \in {"sending", "sent"} => q = r
      BY <1>5, GateExcludes DEF SendInv, InGate
    <2> QED BY <1>5, <2>1 DEF Work
  <1>6. ASSUME NEW r \in Calls, TakeGate(r) \/ Refuse(r) PROVE [Once!Next]_(Once!vars)
    <2>1. Work' = Work
      BY <1>4, <1>6 DEF TakeGate, Refuse
    <2>2. Told' = Told
      BY <1>2, <1>3, <1>6 DEF TakeGate, Refuse
    <2> QED BY <1>1, <2>1, <2>2
  <1>7. ASSUME NEW r \in Calls, NEW a, pc[r] # "done", Work' = Work, reply' = [reply EXCEPT ![r] = a],
               r \in Keyed /\ a \in Calls => dedupe[KeyOf[r]] = a
        PROVE  [Once!Next]_(Once!vars)
    <2>1. CASE r \in Keyed /\ a \in Calls
      <3>1. Work[KeyOf[r]] = a
        BY <1>7, <2>1 DEF Work
      <3>2. Told[r] = "nothing" /\ Told' = [Told EXCEPT ![r] = a]
        BY <1>3, <1>7, <2>1
      <3>3. Once!Tell(r)
        BY <1>7, <2>1, <3>1, <3>2 DEF Once!Tell, Told
      <3> QED BY <2>1, <3>3 DEF Once!Next
    <2>2. CASE ~(r \in Keyed /\ a \in Calls)
      BY <1>1, <1>3, <1>7, <2>2
    <2> QED BY <2>1, <2>2
  <1>8. ASSUME NEW r \in Calls, CheckDedupe(r) PROVE [Once!Next]_(Once!vars)
    <2>0. InGate(r) /\ pc[r] = "gated" /\ dedupe' = dedupe
      BY <1>8 DEF CheckDedupe, InGate
    <2>1. ASSUME NEW a, Return(r, a), r \in Keyed /\ a \in Calls => dedupe[KeyOf[r]] = a
          PROVE  [Once!Next]_(Once!vars)
      <3>1. Work' = Work
        BY <1>4, <2>0, <2>1 DEF Return
      <3> QED BY <1>7, <2>0, <2>1, <3>1 DEF Return
    <2>2. CASE /\ r \in Keyed => dedupe[KeyOf[r]] = None
               /\ pc' = [pc EXCEPT ![r] = "sending"] /\ UNCHANGED <<reply, gate>>
      <3>1. Told' = Told
        BY <1>2, <2>2
      <3>2. \A q \in Calls : pc'[q] = IF q = r THEN "sending" ELSE pc[q]
        BY <1>0, <2>2 DEF TypeOK
      <3>3. CASE r \notin Keyed
        <4>1. Work' = Work
          BY <2>0, <3>2, <3>3 DEF Work
        <4> QED BY <1>1, <3>1, <4>1
      <3>4. CASE r \in Keyed
        <4>1. Work[KeyOf[r]] = "idle"
          BY <1>5, <2>0, <2>2, <3>4
        <4>2. Work'[KeyOf[r]] = "running"
          BY <2>0, <2>2, <3>2, <3>4 DEF Work
        <4>3. \A k \in Keys : k # KeyOf[r] => Work'[k] = Work[k]
          BY <2>0, <3>2, <3>4 DEF Work
        <4>4. Work' = [Work EXCEPT ![KeyOf[r]] = "running"]
          <5>1. Work = [k \in Keys |-> Work[k]] /\ Work' = [k \in Keys |-> Work'[k]]
            BY DEF Work
          <5> QED BY <3>4, <4>2, <4>3, <5>1
        <4>5. Once!Begin(KeyOf[r])
          BY <3>1, <4>1, <4>4 DEF Once!Begin, Told
        <4> QED BY <3>4, <4>5 DEF Once!Next
      <3> QED BY <3>3, <3>4
    <2> QED BY <1>8, <2>1, <2>2 DEF CheckDedupe
  <1>9. ASSUME NEW r \in Calls, Send(r) PROVE [Once!Next]_(Once!vars)
    <2>1. Work' = Work
      BY <1>4, <1>9 DEF Send
    <2> QED BY <1>1, <1>2, <1>9, <2>1 DEF Send
  <1>10. ASSUME NEW r \in Calls, SendFails(r) PROVE [Once!Next]_(Once!vars)
    <2>0. InGate(r) /\ pc[r] = "sending" /\ dedupe' = dedupe
      BY <1>10 DEF SendFails, InGate
    <2>1. Told' = Told
      BY <1>3, <1>10 DEF SendFails, Return
    <2>2. \A q \in Calls : pc'[q] = IF q = r THEN "done" ELSE pc[q]
      BY <1>0, <1>10 DEF SendFails, Return, TypeOK
    <2>3. CASE r \notin Keyed
      <3>1. Work' = Work
        BY <2>0, <2>2, <2>3 DEF Work
      <3> QED BY <1>1, <2>1, <3>1
    <2>4. CASE r \in Keyed
      <3>1. dedupe[KeyOf[r]] = None
        BY <2>0, <2>4 DEF SendInv, GatedIsCurrent
      <3>2. Work[KeyOf[r]] = "running"
        BY <1>5, <2>0, <2>4, <3>1
      <3>3. \A q \in Keyed : KeyOf[q] = KeyOf[r] /\ pc[q] \in {"sending", "sent"} => q = r
        BY <2>0, <2>4, GateExcludes DEF SendInv, InGate
      <3>4. Work'[KeyOf[r]] = "idle"
        BY <2>0, <2>2, <2>4, <3>1, <3>3 DEF Work
      <3>5. \A k \in Keys : k # KeyOf[r] => Work'[k] = Work[k]
        BY <2>0, <2>2, <2>4 DEF Work
      <3>6. Work' = [Work EXCEPT ![KeyOf[r]] = "idle"]
        BY <3>4, <3>5 DEF Work
      <3>7. Once!GiveUp(KeyOf[r])
        BY <2>1, <3>2, <3>6 DEF Once!GiveUp, Told
      <3> QED BY <2>4, <3>7 DEF Once!Next
    <2> QED BY <2>3, <2>4
  <1>11. ASSUME NEW r \in Calls, Remember(r) PROVE [Once!Next]_(Once!vars)
    <2>0. InGate(r) /\ pc[r] = "sent" /\ reply' = reply
      BY <1>11 DEF Remember, InGate
    <2>1. Told' = Told
      BY <1>2, <2>0
    <2>2. \A q \in Calls : pc'[q] = IF q = r THEN "remembered" ELSE pc[q]
      BY <1>0, <1>11 DEF Remember, TypeOK
    <2>3. CASE r \notin Keyed
      <3>1. dedupe' = dedupe
        BY <1>11, <2>3 DEF Remember
      <3>2. \A q \in Keyed : pc'[q] = pc[q]
        BY <2>2, <2>3
      <3>3. Work' = Work
        BY <3>1, <3>2 DEF Work
      <3> QED BY <1>1, <2>1, <3>3
    <2>4. CASE r \in Keyed
      <3>1. dedupe[KeyOf[r]] = None
        BY <2>0, <2>4 DEF SendInv, GatedIsCurrent
      <3>2. Work[KeyOf[r]] = "running"
        BY <1>5, <2>0, <2>4, <3>1
      <3>3. dedupe'[KeyOf[r]] = r /\ \A k \in Keys : k # KeyOf[r] => dedupe'[k] = dedupe[k]
        BY <1>0, <1>11, <2>4 DEF Remember, TypeOK
      <3>4. Work'[KeyOf[r]] = r
        BY <2>4, <3>3 DEF Work
      <3>5. \A k \in Keys : k # KeyOf[r] => Work'[k] = Work[k]
        BY <2>2, <2>4, <3>3 DEF Work
      <3>6. Work' = [Work EXCEPT ![KeyOf[r]] = r]
        BY <3>4, <3>5 DEF Work
      <3>7. Once!End(KeyOf[r], r)
        BY <2>1, <3>2, <3>6 DEF Once!End, Told
      <3> QED BY <2>4, <3>7 DEF Once!Next
    <2> QED BY <2>3, <2>4
  <1>12. ASSUME NEW r \in Calls, Finish(r) PROVE [Once!Next]_(Once!vars)
    <2>1. r \in Keyed => dedupe[KeyOf[r]] = r
      BY <1>12 DEF SendInv, GatedIsCurrent, Finish
    <2>2. Work' = Work
      BY <1>4, <1>12 DEF Finish, Return
    <2> QED BY <1>7, <1>12, <2>1, <2>2 DEF Finish, Return
  <1>13. CASE UNCHANGED vars
    <2>1. Work' = Work
      BY <1>13 DEF vars, Work
    <2> QED BY <1>1, <1>2, <1>13, <2>1 DEF vars
  <1> QED BY <1>6, <1>8, <1>9, <1>10, <1>11, <1>12, <1>13 DEF Next, Call

\* A message that went out is of a call that has not answered yet, was answered with an error,
\* or is the one remembered for its key; and what is remembered went out.
DeliveriesAreKnown ==
    /\ \A r \in Keyed : r \in delivered =>
          \/ pc[r] \in {"sent", "remembered"}
          \/ pc[r] = "done" /\ (reply[r] = "error" \/ dedupe[KeyOf[r]] = r)
    /\ \A r \in Calls : pc[r] \in {"sent", "remembered"} => r \in delivered
    /\ \A k \in Keys : dedupe[k] # None => dedupe[k] \in delivered

\* What the run checks of the messages, with the invariant it needs.
MessageInv == SendInv /\ DeliveriesAreKnown /\ AnswersWereDelivered

\* No message of a key is repeated but after an error.
LEMMA RepeatsAreExcused ==
    ASSUME NamesAreDistinct, SendInv, DeliveriesAreKnown PROVE RepeatedOnlyAfterError
  <1> SUFFICES ASSUME NEW r \in delivered \ Keyless, NEW q \in delivered \ Keyless,
                      KeyOf[r] = KeyOf[q], reply[r] # "error", reply[q] # "error"
               PROVE  r = q
    BY DEF RepeatedOnlyAfterError
  <1>1. r \in Keyed /\ q \in Keyed
    BY DEF SendInv, TypeOK, Keyed
  <1>2. \A x \in {r, q} : (pc[x] = "sent" /\ dedupe[KeyOf[x]] = None) \/ dedupe[KeyOf[x]] = x
    BY <1>1 DEF DeliveriesAreKnown, SendInv, GatedIsCurrent
  <1>3. CASE pc[r] = "sent" /\ pc[q] = "sent"
    BY <1>1, <1>3, GateExcludes DEF SendInv, InGate
  <1>4. None \notin {r, q}
    BY <1>1 DEF NamesAreDistinct, Keyed
  <1> QED BY <1>2, <1>3, <1>4

\* Every step keeps what is known of the messages.
LEMMA MessageStep == ASSUME NamesAreDistinct, MessageInv, [Next]_vars PROVE MessageInv'
  <1> USE DEF NamesAreDistinct, Keyed
  <1>0. TypeOK /\ TypeOK' /\ SendInv' /\ DeliveriesAreKnown /\ AnswersWereDelivered
    BY SendStep DEF MessageInv, SendInv
  <1> SUFFICES DeliveriesAreKnown' /\ AnswersWereDelivered'
    BY <1>0 DEF MessageInv
  <1>1. ASSUME NEW r \in Calls, NEW a \in Calls \cup {"error"}, Return(r, a), InGate(r),
               dedupe' = dedupe, delivered' \in {delivered, delivered \cup {r}},
               a \in Calls => delivered' = delivered /\ a \in delivered,
               pc[r] \in {"sent", "remembered"} => (r \in Keyed => dedupe[KeyOf[r]] = r),
               pc[r] = "gated" => delivered' = delivered,
               pc[r] = "sending" => a = "error"
        PROVE  DeliveriesAreKnown' /\ AnswersWereDelivered'
    <2>1. \A q \in Calls : /\ pc'[q] = IF q = r THEN "done" ELSE pc[q]
                           /\ reply'[q] = IF q = r THEN a ELSE reply[q]
      BY <1>0, <1>1 DEF Return, TypeOK
    <2>2. AnswersWereDelivered'
      BY <1>0, <1>1, <2>1 DEF AnswersWereDelivered
    <2>3. DeliveriesAreKnown'
      BY <1>0, <1>1, <2>1 DEF DeliveriesAreKnown, InGate
    <2> QED BY <2>2, <2>3
  <1>2. ASSUME NEW r \in Calls, Refuse(r) PROVE DeliveriesAreKnown' /\ AnswersWereDelivered'
    <2>1. UNCHANGED <<dedupe, delivered>>
      BY <1>2 DEF Refuse
    <2>2. \A q \in Calls : /\ pc'[q] = IF q = r THEN "done" ELSE pc[q]
                           /\ reply'[q] = IF q = r THEN "error" ELSE reply[q]
      BY <1>0, <1>2 DEF Refuse, TypeOK
    <2> QED BY <1>0, <1>2, <2>1, <2>2 DEF Refuse, DeliveriesAreKnown, AnswersWereDelivered
  <1>3. ASSUME NEW r \in Calls, TakeGate(r) PROVE DeliveriesAreKnown' /\ AnswersWereDelivered'
    BY <1>0, <1>3 DEF TakeGate, DeliveriesAreKnown, AnswersWereDelivered, TypeOK
  <1>4. ASSUME NEW r \in Calls, CheckDedupe(r) PROVE DeliveriesAreKnown' /\ AnswersWereDelivered'
    <2>1. InGate(r) /\ pc[r] = "gated" /\ dedupe' = dedupe /\ delivered' = delivered
      BY <1>4 DEF CheckDedupe, InGate
    <2>2. CASE r \in Keyed /\ dedupe[KeyOf[r]] # None
      <3>1. dedupe[KeyOf[r]] \in Calls /\ dedupe[KeyOf[r]] \in delivered
        BY <1>0, <2>2 DEF TypeOK, DeliveriesAreKnown
      <3>2. Return(r, dedupe[KeyOf[r]])
        BY <1>4, <2>2 DEF CheckDedupe
      <3> QED BY <1>1, <2>1, <3>1, <3>2
    <2>3. CASE Return(r, "error")
      BY <1>1, <2>1, <2>3
    <2>4. CASE pc' = [pc EXCEPT ![r] = "sending"] /\ UNCHANGED <<reply, gate>>
      BY <1>0, <2>1, <2>4 DEF DeliveriesAreKnown, AnswersWereDelivered, TypeOK
    <2> QED BY <1>4, <2>2, <2>3, <2>4 DEF CheckDedupe
  <1>5. ASSUME NEW r \in Calls, Send(r) PROVE DeliveriesAreKnown' /\ AnswersWereDelivered'
    BY <1>0, <1>5 DEF Send, DeliveriesAreKnown, AnswersWereDelivered, TypeOK
  <1>6. ASSUME NEW r \in Calls, SendFails(r) PROVE DeliveriesAreKnown' /\ AnswersWereDelivered'
    BY <1>1, <1>6 DEF SendFails, InGate
  <1>7. ASSUME NEW r \in Calls, Remember(r) PROVE DeliveriesAreKnown' /\ AnswersWereDelivered'
    <2>1. /\ pc[r] = "sent" /\ UNCHANGED <<reply, gate, delivered>> /\ r \in delivered
          /\ r \in Keyed => dedupe[KeyOf[r]] = None
      BY <1>0, <1>7 DEF Remember, DeliveriesAreKnown, MessageInv, SendInv, GatedIsCurrent
    <2>2. \A q \in Calls : pc'[q] = IF q = r THEN "remembered" ELSE pc[q]
      BY <1>0, <1>7 DEF Remember, TypeOK
    <2>3. \A k \in Keys : dedupe'[k] = IF r \in Keyed /\ k = KeyOf[r] THEN r ELSE dedupe[k]
      BY <1>0, <1>7 DEF Remember, TypeOK
    <2> QED BY <1>0, <2>1, <2>2, <2>3 DEF DeliveriesAreKnown, AnswersWereDelivered
  <1>8. ASSUME NEW r \in Calls, Finish(r) PROVE DeliveriesAreKnown' /\ AnswersWereDelivered'
    <2>1. /\ InGate(r) /\ pc[r] = "remembered" /\ Return(r, r) /\ UNCHANGED <<dedupe, delivered>>
          /\ r \in delivered /\ (r \in Keyed => dedupe[KeyOf[r]] = r)
      BY <1>0, <1>8 DEF Finish, InGate, DeliveriesAreKnown, MessageInv, SendInv, GatedIsCurrent
    <2> QED BY <1>1, <2>1
  <1>9. CASE UNCHANGED vars
    BY <1>0, <1>9 DEF vars, DeliveriesAreKnown, AnswersWereDelivered
  <1> QED BY <1>2, <1>3, <1>4, <1>5, <1>6, <1>7, <1>8, <1>9 DEF Next, Call

\* For any number of calls and keys: a message that was confirmed, or is still under way, is
\* not repeated by a retry with its key, and an answer names a message that went out.
THEOREM NoMessageIsRepeated ==
    ASSUME NamesAreDistinct
    PROVE  Spec => [](TypeOK /\ RepeatedOnlyAfterError /\ AnswersWereDelivered)
  <1>1. Init => MessageInv
    BY DEF Init, MessageInv, SendInv, TypeOK, GateIsHeld, InGate, GatedIsCurrent, Keyed,
           DeliveriesAreKnown, AnswersWereDelivered, NamesAreDistinct
  <1>2. MessageInv /\ [Next]_vars => MessageInv'
    BY MessageStep
  <1>3. MessageInv => TypeOK /\ RepeatedOnlyAfterError /\ AnswersWereDelivered
    BY RepeatsAreExcused DEF MessageInv, SendInv
  <1> QED BY <1>1, <1>2, <1>3, PTL DEF Spec

\* The refinement in the parts that a specification with other components uses.
LEMMA OnceBegins == ASSUME NamesAreDistinct PROVE Init => OnceInit /\ SendInv
  <1>1. Init => SendInv
    BY DEF Init, SendInv, TypeOK, GateIsHeld, InGate, GatedIsCurrent, Keyed
  <1>2. Init => OnceInit
    BY DEF Init, OnceInit, Once!Init, Work, NamesAreDistinct
  <1> QED BY <1>1, <1>2

LEMMA OnceGoesOn == ASSUME NamesAreDistinct, SendInv, [Next]_vars PROVE OnceStep /\ SendInv'
  BY MappedStep, SendStep DEF OnceStep

\* For any number of calls and keys, every step of the send call is a step OnceByKey allows:
\* one send of a key at a time, none after a confirmed one, every retry told the same.
THEOREM KeepsTheKeysPromise == ASSUME NamesAreDistinct PROVE Spec => ImplementsOnceByKey
  <1>1. Init => SendInv
    BY DEF Init, SendInv, TypeOK, GateIsHeld, InGate, GatedIsCurrent, Keyed
  <1>2. SendInv /\ [Next]_vars => SendInv'
    BY SendStep
  <1>3. Init => Once!Init
    BY DEF Init, Once!Init, Work, NamesAreDistinct
  <1>4. SendInv /\ [Next]_vars => [Once!Next]_(Once!vars)
    BY MappedStep
  <1> QED BY <1>1, <1>2, <1>3, <1>4, PTL DEF Spec, ImplementsOnceByKey, Once!Spec
=============================================================================
