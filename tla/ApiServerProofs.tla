--------------------------- MODULE ApiServerProofs --------------------------
(***************************************************************************)
(* What clients of the unary RPCs are told, what UpdateScale may           *)
(* overwrite, and what a watch or a log stream delivers before it ends,    *)
(* for every set of users and replica counts and every number of changes   *)
(* by other writers.                                                       *)
(***************************************************************************)
EXTENDS ApiServer, SequenceTheorems, TLAPS

(***************************************************************************)
(* The two tables of error codes.                                          *)
(***************************************************************************)
DomainCodes == {"ErrorCodeInternal", "ErrorCodeInvalidArgument", "ErrorCodeNotFound",
                "ErrorCodeAlreadyExists", "ErrorCodeUnauthenticated",
                "ErrorCodePermissionDenied", "ErrorCodeFailedPrecondition",
                "ErrorCodeDeadlineExceeded", "ErrorCodeResourceExhausted",
                "ErrorCodeUnimplemented", "ErrorCodeUnavailable"}

\* Every domain code has a Connect code, and none of them is OK.
LEMMA ConnectCodes ==
    \A code \in DomainCodes : domainCodeToConnectCode[code] # "OK"
BY DEF DomainCodes, domainCodeToConnectCode

\* Every reason of the API server has a domain code.
LEMMA DomainCodesOfReasons ==
    \A reason \in DOMAIN statusReasonToDomainCode :
        statusReasonToDomainCode[reason] \in DomainCodes
BY DEF DomainCodes, statusReasonToDomainCode

\* The reasons that leave open what happened are reported as such.
LEMMA AmbiguousReasons ==
    ASSUME NEW reason \in {"Timeout", "ServerTimeout", "InternalError", "ServiceUnavailable"}
    PROVE  /\ reason \in DOMAIN statusReasonToDomainCode
           /\ statusReasonToDomainCode[reason]
                 \in {"ErrorCodeDeadlineExceeded", "ErrorCodeInternal", "ErrorCodeUnavailable"}
BY DEF statusReasonToDomainCode

\* And "Unknown" is not in the table.
LEMMA UnknownReason == "Unknown" \notin DOMAIN statusReasonToDomainCode
BY DEF statusReasonToDomainCode

\* No error is reported as OK ...
LEMMA ErrorCodes ==
    ASSUME NEW user, NEW err \in ClientErrors(user) \cup CallErrors \cup {ErrInvalidInput}
    PROVE  CodeOf(err) # "OK"
<1>1. CASE err \in {ErrInvalidInput, ErrClusterNotFound, OtherError}
  <2>1. err.type \in {"ErrInvalidInput", "ErrClusterNotFound", "other"}
    <3>1. ErrInvalidInput.type = "ErrInvalidInput"
      BY Zenon DEF ErrInvalidInput
    <3>2. ErrClusterNotFound.type = "ErrClusterNotFound"
      BY DEF ErrClusterNotFound
    <3>3. OtherError.type = "other"
      BY DEF OtherError
    <3> QED
      BY <1>1, <3>1, <3>2, <3>3
  <2>2. wrapK8sError(err) = err
    BY <2>1 DEF wrapK8sError
  <2> QED
    BY <2>1, <2>2 DEF CodeOf, domainErrorToConnectError
<1>2. ASSUME NEW code \in DomainCodes
      PROVE  domainErrorToConnectError(DomainError(code)) # "OK"
  BY ConnectCodes DEF domainErrorToConnectError, DomainError
<1>3. CASE \E code \in DomainCodes : err = DomainError(code)
  BY <1>2, <1>3 DEF CodeOf, wrapK8sError, DomainError
<1>4. CASE \E reason \in Reasons : err = Status(reason)
  <2>1. PICK reason \in Reasons : err = Status(reason)
    BY <1>4
  <2>2. \E code \in DomainCodes : wrapK8sError(err) = DomainError(code)
    BY <2>1, DomainCodesOfReasons DEF wrapK8sError, Status, DomainCodes
  <2> QED
    BY <1>2, <2>2 DEF CodeOf
<1> QED
  BY <1>1, <1>3, <1>4 DEF ClientErrors, CallErrors, DomainCodes

\* ... and an error that leaves open what happened is reported as no refusal.
LEMMA AmbiguousCodes ==
    ASSUME NEW err \in Ambiguous
    PROVE  CodeOf(err) \notin Refusals
<1>1. CASE err = OtherError
  BY <1>1, Zenon DEF OtherError, CodeOf, wrapK8sError, domainErrorToConnectError, Refusals
<1>2. ASSUME NEW code \in {"ErrorCodeDeadlineExceeded", "ErrorCodeInternal",
                           "ErrorCodeUnavailable"}
      PROVE  domainErrorToConnectError(DomainError(code)) \notin Refusals
  BY DEF domainErrorToConnectError, DomainError, domainCodeToConnectCode, Refusals
<1>3. CASE \E reason \in {"Timeout", "ServerTimeout", "InternalError", "ServiceUnavailable",
                          "Unknown"} : err = Status(reason)
  <2>1. \E code \in {"ErrorCodeDeadlineExceeded", "ErrorCodeInternal", "ErrorCodeUnavailable"} :
           wrapK8sError(err) = DomainError(code)
    BY <1>3, AmbiguousReasons, UnknownReason DEF wrapK8sError, Status
  <2> QED
    BY <1>2, <2>1 DEF CodeOf
<1> QED
  BY <1>1, <1>3 DEF Ambiguous

\* A use case's own internal error is neither.
LEMMA InternalCode == CodeOf(DomainError("ErrorCodeInternal")) = "Internal"
BY DEF CodeOf, wrapK8sError, DomainError, domainErrorToConnectError, domainCodeToConnectCode

(***************************************************************************)
(* The invariant of a call.                                                *)
(***************************************************************************)
IsCall(c) ==
    c = [pc |-> c.pc, rpc |-> c.rpc, user |-> c.user, base |-> c.base, wrote |-> c.wrote,
         code |-> c.code]

Told(c) ==
    c.pc = "done" =>
        /\ c.code = "OK" /\ c.rpc \in Writes \cup {"Scale"} /\ c.user # NoUser => c.wrote = TRUE
        /\ c.code \in Refusals => c.wrote = FALSE

\* Nothing is written before the call that writes, what is converted was
\* written if it is to be, and the answer says so.
CallInv(c) ==
    /\ IsCall(c) /\ Told(c)
    /\ c.pc \in {"lookup", "client", "call", "events", "put"} => c.wrote = FALSE
    /\ c.pc = "convert" /\ c.rpc \in Writes \cup {"Scale"} => c.wrote = TRUE
    /\ c.pc = "events" => c.rpc = "Describe"

\* The assignments to single fields.
WithPc(c, v) == [c EXCEPT !.pc = v]
WithCode(c, v) == [c EXCEPT !.code = v]
WithBase(c, v) == [c EXCEPT !.base = v]
WithWrote(c, v) == [c EXCEPT !.wrote = v]
WithRpc(c, v) == [c EXCEPT !.rpc = v]
WithUser(c, v) == [c EXCEPT !.user = v]

\* An assignment to a field changes that field only.
LEMMA Assignments ==
    ASSUME NEW c, IsCall(c), NEW v
    PROVE  /\ WithPc(c, v) = [pc |-> v, rpc |-> c.rpc, user |-> c.user, base |-> c.base,
                              wrote |-> c.wrote, code |-> c.code]
           /\ WithCode(c, v) = [pc |-> c.pc, rpc |-> c.rpc, user |-> c.user, base |-> c.base,
                                wrote |-> c.wrote, code |-> v]
           /\ WithBase(c, v) = [pc |-> c.pc, rpc |-> c.rpc, user |-> c.user, base |-> v,
                                wrote |-> c.wrote, code |-> c.code]
           /\ WithWrote(c, v) = [pc |-> c.pc, rpc |-> c.rpc, user |-> c.user, base |-> c.base,
                                 wrote |-> v, code |-> c.code]
           /\ WithRpc(c, v) = [pc |-> c.pc, rpc |-> v, user |-> c.user, base |-> c.base,
                               wrote |-> c.wrote, code |-> c.code]
           /\ WithUser(c, v) = [pc |-> c.pc, rpc |-> c.rpc, user |-> v, base |-> c.base,
                                wrote |-> c.wrote, code |-> c.code]
BY DEF IsCall, WithPc, WithCode, WithBase, WithWrote, WithRpc, WithUser

\* The same for the field that holds a truth value, which the provers treat
\* apart.
LEMMA WroteAssigned ==
    ASSUME NEW c, IsCall(c), NEW v
    PROVE  /\ IsCall(WithWrote(c, v)) /\ WithWrote(c, v).wrote = v
           /\ WithWrote(c, v).pc = c.pc /\ WithWrote(c, v).rpc = c.rpc
BY Assignments DEF IsCall

\* What an assignment to pc leaves of a call ...
LEMMA PcAssigned ==
    ASSUME NEW c, IsCall(c), NEW v
    PROVE  IsCall(WithPc(c, v)) /\ WithPc(c, v).wrote = c.wrote /\ WithPc(c, v).pc = v
BY Assignments DEF IsCall

\* ... and one to base or code.
LEMMA OthersAssigned ==
    ASSUME NEW c, IsCall(c), NEW v
    PROVE  /\ IsCall(WithBase(c, v)) /\ WithBase(c, v).wrote = c.wrote
           /\ IsCall(WithCode(c, v)) /\ WithCode(c, v).wrote = c.wrote
           /\ WithCode(c, v).pc = c.pc /\ WithCode(c, v).code = v
BY Assignments DEF IsCall

\* An error answers a call that has written nothing.
LEMMA Refused ==
    ASSUME NEW c, IsCall(c), c.wrote = FALSE, NEW code, code # "OK"
    PROVE  CallInv([c EXCEPT !.pc = "done", !.code = code])
<1> DEFINE d == WithPc(c, "done")
           e == WithCode(d, code)
<1>1. /\ IsCall(d) /\ d.wrote = FALSE /\ d.pc = "done"
  BY Assignments DEF IsCall
<1> HIDE DEF d
<1>2. /\ IsCall(e) /\ e.wrote = FALSE /\ e.pc = "done" /\ e.code = code
  BY <1>1, Assignments DEF IsCall
<1>3. e = [c EXCEPT !.pc = "done", !.code = code]
  BY DEF d, WithPc, WithCode
<1> HIDE DEF e
<1> QED
  BY <1>2, <1>3 DEF CallInv, Told

\* A call that has written is answered with anything but a refusal.
LEMMA CarriedOut ==
    ASSUME NEW c, IsCall(c), NEW code, code \notin Refusals
    PROVE  CallInv([c EXCEPT !.pc = "done", !.wrote = TRUE, !.code = code])
<1> DEFINE d == WithPc(c, "done")
           e == WithWrote(d, TRUE)
           f == WithCode(e, code)
<1>1. IsCall(d) /\ d.pc = "done"
  BY Assignments DEF IsCall
<1> HIDE DEF d
<1>2. IsCall(e) /\ e.pc = "done" /\ e.wrote = TRUE
  BY <1>1, WroteAssigned, Zenon
<1>3. e = [c EXCEPT !.pc = "done", !.wrote = TRUE]
  BY DEF d, WithPc, WithWrote
<1> HIDE DEF e
<1>4. IsCall(f) /\ f.pc = "done" /\ f.wrote = TRUE /\ f.code = code
  BY <1>2, Assignments DEF IsCall
<1>5. f = [c EXCEPT !.pc = "done", !.wrote = TRUE, !.code = code]
  BY <1>3 DEF WithCode
<1> HIDE DEF f
<1> QED
  BY <1>4, <1>5 DEF CallInv, Told

\* Moving on within a handler keeps the other fields.
LEMMA Moved ==
    ASSUME NEW c, IsCall(c), NEW pc, NEW d, d = [c EXCEPT !.pc = pc]
    PROVE  IsCall(d) /\ d.pc = pc /\ d.rpc = c.rpc /\ d.wrote = c.wrote
<1>1. d = WithPc(c, pc)
  BY DEF WithPc
<1> QED
  BY <1>1, Assignments DEF IsCall

\* The answer of a call whose result was converted, or could not be.
LEMMA Answered ==
    ASSUME NEW c, IsCall(c), NEW code \in {"OK", "Internal"},
           c.rpc \in Writes \cup {"Scale"} => c.wrote = TRUE
    PROVE  CallInv([c EXCEPT !.pc = "done", !.code = code])
<1> DEFINE d == WithPc(c, "done")
           e == WithCode(d, code)
<1>1. IsCall(d) /\ d.wrote = c.wrote /\ d.rpc = c.rpc /\ d.pc = "done"
  BY Assignments DEF IsCall
<1> HIDE DEF d
<1>2. IsCall(e) /\ e.wrote = c.wrote /\ e.rpc = c.rpc /\ e.pc = "done" /\ e.code = code
  BY <1>1, Assignments DEF IsCall
<1>3. e = [c EXCEPT !.pc = "done", !.code = code]
  BY DEF d, WithPc, WithCode
<1> HIDE DEF e
<1> QED
  BY <1>2, <1>3 DEF CallInv, Told, Refusals

\* A write has been carried out and answered.
LEMMA Written ==
    ASSUME NEW c, IsCall(c), NEW base, NEW pc \in {"convert", "done"}, NEW code \in {"", "OK"}
    PROVE  CallInv([c EXCEPT !.wrote = TRUE, !.base = base, !.pc = pc, !.code = code])
<1> DEFINE d == WithWrote(c, TRUE)
           e == WithBase(d, base)
           f == WithPc(e, pc)
           g == WithCode(f, code)
<1>0. IsCall(d)
  BY WroteAssigned, Zenon
<1>1. d.wrote = TRUE
  BY WroteAssigned, Zenon
<1> HIDE DEF d
<1>2. IsCall(e) /\ e.wrote = d.wrote
  BY <1>0, OthersAssigned, Zenon
<1>3. e = [c EXCEPT !.wrote = TRUE, !.base = base]
  BY Zenon DEF d, WithWrote, WithBase
<1> HIDE DEF e
<1>4. IsCall(f) /\ f.wrote = e.wrote /\ f.pc = pc
  <2>1. IsCall(e)
    BY <1>2, Zenon
  <2> QED
    BY <2>1, PcAssigned, Zenon
<1>5. f = [c EXCEPT !.wrote = TRUE, !.base = base, !.pc = pc]
  BY <1>3, Zenon DEF WithPc
<1> HIDE DEF f
<1>6. IsCall(g) /\ g.wrote = f.wrote /\ g.pc = pc /\ g.code = code
  BY <1>4, OthersAssigned, Zenon
<1>7. g = [c EXCEPT !.wrote = TRUE, !.base = base, !.pc = pc, !.code = code]
  BY <1>5, Zenon DEF WithCode
<1> HIDE DEF g
<1>8. g.wrote = TRUE
  BY <1>1, <1>2, <1>4, <1>6, Zenon
<1> QED
  BY <1>6, <1>7, <1>8, Zenon DEF CallInv, Told, Refusals

\* Something has been read.
LEMMA HasRead ==
    ASSUME NEW c, CallInv(c), c.pc = "call", NEW base, NEW pc,
           \/ pc = "events" /\ c.rpc = "Describe"
           \/ pc = "put"
           \/ pc = "convert" /\ c.rpc \in Reads
    PROVE  CallInv([c EXCEPT !.base = base, !.pc = pc])
<1> DEFINE d == WithBase(c, base)
           e == WithPc(d, pc)
<1>0. IsCall(c) /\ c.wrote = FALSE
  BY DEF CallInv
<1>1. IsCall(d) /\ d.wrote = c.wrote /\ d.rpc = c.rpc
  BY <1>0, Assignments DEF IsCall
<1> HIDE DEF d
<1>2. IsCall(e) /\ e.wrote = c.wrote /\ e.rpc = c.rpc /\ e.pc = pc
  BY <1>1, Assignments DEF IsCall
<1>3. e = [c EXCEPT !.base = base, !.pc = pc]
  BY DEF d, WithBase, WithPc
<1> HIDE DEF e
<1> QED
  BY <1>0, <1>2, <1>3 DEF CallInv, Told, Reads, Writes

\* A call begins, or is answered by the middleware.
LEMMA BeginKeeps ==
    ASSUME NEW rpc, NEW preflight \in BOOLEAN, NEW token, Begin(rpc, preflight, token)
    PROVE  CallInv(call')
<1> DEFINE route == wrapCORS([preflight |-> preflight, path |-> Path(rpc), token |-> token])
           new == [Idle EXCEPT !.rpc = rpc, !.user = route.user]
<1>1. \/ route.to = "mux"
      \/ route.to = "refused" /\ route.user = NoUser
      \/ route.to = "cors" /\ route.user = NoUser
  BY DEF wrapCORS, wrapAuth
<1> HIDE DEF route
<1>2. new = WithUser(WithRpc(Idle, rpc), route.user)
  BY DEF WithUser, WithRpc
<1> HIDE DEF new
<1>3. IsCall(new) /\ new.wrote = FALSE /\ new.user = route.user
  <2> DEFINE d == WithRpc(Idle, rpc)
  <2>1. IsCall(Idle)
    BY DEF IsCall, Idle
  <2>2. Idle.wrote = FALSE
    BY DEF Idle
  <2>3. IsCall(d) /\ d.wrote = Idle.wrote
    BY <2>1, Assignments DEF IsCall
  <2> HIDE DEF d
  <2>4. IsCall(new) /\ new.wrote = d.wrote /\ new.user = route.user
    <3>1. new = WithUser(d, route.user)
      BY <1>2 DEF d
    <3> QED
      BY <2>3, <3>1, Assignments DEF IsCall
  <2> QED
    BY <2>2, <2>3, <2>4, Zenon
<1>4. CASE route.to = "mux"
  <2>1. call' = [new EXCEPT !.pc = "lookup"]
    BY <1>4 DEF Begin, route, new
  <2>2. IsCall(call') /\ call'.pc = "lookup" /\ call'.wrote = new.wrote
    BY <1>3, <2>1, Moved
  <2> QED
    BY <1>3, <2>2 DEF CallInv, Told
<1>5. CASE route.to = "refused"
  <2>1. call' = [new EXCEPT !.pc = "done", !.code = "Unauthenticated"]
    BY <1>5 DEF Begin, route, new
  <2> QED
    BY <1>3, <2>1, Refused, Zenon
<1>6. CASE route.to = "cors"
  <2> DEFINE d == WithPc(new, "done")
             e == WithCode(d, "OK")
  <2>1. IsCall(d) /\ d.user = new.user /\ d.pc = "done"
    BY <1>3, Assignments DEF IsCall
  <2> HIDE DEF d
  <2>2. IsCall(e) /\ e.user = new.user /\ e.pc = "done" /\ e.code = "OK"
    BY <2>1, Assignments DEF IsCall
  <2>3. call' = e
    BY <1>6 DEF Begin, route, new, d, WithPc, WithCode
  <2> HIDE DEF e
  <2> QED
    BY <1>1, <1>3, <1>6, <2>2, <2>3 DEF CallInv, Told, Refusals
<1> QED
  BY <1>1, <1>4, <1>5, <1>6

\* An answer leaves the fields alone that it does not assign.
LEMMA CallFieldsKept ==
    ASSUME NEW c, IsCall(c), NEW code
    PROVE  [c EXCEPT !.pc = "done", !.code = code].wrote = c.wrote
<1> DEFINE d == WithPc(c, "done")
           e == WithCode(d, code)
<1>1. IsCall(d) /\ d.wrote = c.wrote
  BY PcAssigned
<1> HIDE DEF d
<1>2. e.wrote = c.wrote
  BY <1>1, OthersAssigned
<1>3. e = [c EXCEPT !.pc = "done", !.code = code]
  BY DEF d, WithPc, WithCode
<1> HIDE DEF e
<1> QED
  BY <1>2, <1>3

\* No call is under way at first and after an answer.
LEMMA IdleInv == CallInv(Idle)
<1>1. IsCall(Idle)
  BY DEF IsCall, Idle
<1>2. Idle.pc = "idle"
  BY DEF Idle
<1> QED
  BY <1>1, <1>2 DEF CallInv, Told

\* Every step of a call keeps the invariant.
LEMMA CallKeeps ==
    ASSUME CallInv(call), CallNext
    PROVE  CallInv(call')
<1>0. IsCall(call)
  BY DEF CallInv
<1>1. ASSUME NEW err \in ClientErrors(call.user) \cup CallErrors \cup {ErrInvalidInput},
             call.wrote = FALSE, Fail(err)
      PROVE  CallInv(call')
  <2> DEFINE code == CodeOf(err)
  <2>1. code # "OK"
    BY ErrorCodes
  <2>2. call' = [call EXCEPT !.pc = "done", !.code = code]
    BY <1>1 DEF Fail, Answer
  <2> HIDE DEF code
  <2>3. CallInv([call EXCEPT !.pc = "done", !.code = code])
    BY <1>0, <1>1, <2>1, Refused, Zenon
  <2> QED
    BY <2>2, <2>3, Zenon
<1>2. CASE \E rpc \in RPCs, preflight \in BOOLEAN, token \in Tokens : Begin(rpc, preflight, token)
  BY <1>2, BeginKeeps
<1>3. CASE InvalidScale \/ InvalidRestart
  <2>1. call.wrote = FALSE /\ Fail(ErrInvalidInput)
    BY <1>3 DEF InvalidScale, InvalidRestart, CallInv
  <2> QED
    BY <1>1, <2>1, Zenon
<1>4. CASE Lookup
  <2> DEFINE pc == IF call.rpc \in Discoveries THEN "convert" ELSE "client"
  <2>1. call.wrote = FALSE /\ call' = [call EXCEPT !.pc = pc]
    BY <1>4 DEF Lookup, Goto, CallInv
  <2>2. IsCall(call') /\ call'.pc = pc /\ call'.rpc = call.rpc /\ call'.wrote = call.wrote
    <3> HIDE DEF pc
    <3> QED
      BY <1>0, <2>1, Moved
  <2> QED
    BY <2>1, <2>2 DEF CallInv, Told, Discoveries, Writes
<1>5. CASE LookupFails
  <2>1. PICK err \in ClientErrors(call.user) \cup CallErrors : Fail(err)
    BY <1>5 DEF LookupFails
  <2>2. call.wrote = FALSE
    BY <1>5 DEF LookupFails, CallInv
  <2> QED
    BY <1>1, <2>1, <2>2, Zenon
<1>6. CASE Prepare
  <2>1. call.wrote = FALSE /\ call' = [call EXCEPT !.pc = "call"]
    BY <1>6 DEF Prepare, Goto, CallInv
  <2>2. IsCall(call') /\ call'.pc = "call" /\ call'.wrote = call.wrote
    BY <1>0, <2>1, Moved
  <2> QED
    BY <2>1, <2>2 DEF CallInv, Told
<1>7. CASE PrepareFails
  <2>1. PICK err \in ClientErrors(call.user) \cup fromYAMLErrors : Fail(err)
    BY <1>7 DEF PrepareFails
  <2>2. err \in ClientErrors(call.user) \cup CallErrors \cup {ErrInvalidInput}
    BY <2>1 DEF fromYAMLErrors
  <2>3. call.wrote = FALSE
    BY <1>7 DEF PrepareFails, CallInv
  <2> QED
    BY <1>1, <2>1, <2>2, <2>3, Zenon
<1>8. CASE Read
  <2> DEFINE pc == CASE call.rpc = "Describe" -> "events"
                     [] call.rpc = "Scale" -> "put"
                     [] OTHER -> "convert"
  <2>1. call.pc = "call" /\ call' = [call EXCEPT !.base = Version, !.pc = pc]
    BY <1>8 DEF Read
  <2>2. \/ pc = "events" /\ call.rpc = "Describe"
        \/ pc = "put"
        \/ pc = "convert" /\ call.rpc \in Reads
    BY <1>8 DEF Read
  <2> HIDE DEF pc
  <2> QED
    BY <2>1, <2>2, HasRead, Zenon
<1>9. CASE Write
  <2> DEFINE pc == IF call.rpc \in {"Create", "Apply"} THEN "convert" ELSE "done"
             code == IF call.rpc \in {"Create", "Apply"} THEN "" ELSE "OK"
  <2>1. call' = [call EXCEPT !.wrote = TRUE, !.base = Len(log'), !.pc = pc, !.code = code]
    BY <1>9 DEF Write
  <2>2. pc \in {"convert", "done"} /\ code \in {"", "OK"}
    OBVIOUS
  <2> HIDE DEF pc, code
  <2> QED
    BY <1>0, <2>1, <2>2, Written, Zenon
<1>10. CASE CallFails \/ UpdateScaleFails
  <2>1. PICK err \in CallErrors : Fail(err)
    BY <1>10 DEF CallFails, UpdateScaleFails
  <2>2. call.wrote = FALSE
    BY <1>10 DEF CallFails, UpdateScaleFails, CallInv
  <2> QED
    BY <1>1, <2>1, <2>2, Zenon
<1>11. CASE AnswerLost \/ UpdateScaleLost
  <2>1. PICK err \in Ambiguous :
           call' = [call EXCEPT !.pc = "done", !.wrote = TRUE, !.code = CodeOf(err)]
    BY <1>11, Zenon DEF AnswerLost, UpdateScaleLost
  <2> QED
    BY <1>0, <2>1, AmbiguousCodes, CarriedOut, Zenon
<1>12. CASE UpdateScale
  <2>1. PICK n \in Replicas :
           call' = [call EXCEPT !.pc = "done", !.wrote = TRUE, !.code = ReadBack(n)]
    BY <1>12, Zenon DEF UpdateScale
  <2>2. ReadBack(n) \in {"OK", "Internal"}
    BY InternalCode DEF ReadBack
  <2> DEFINE code == ReadBack(n)
  <2>3. code \notin Refusals
    BY <2>2 DEF Refusals
  <2> HIDE DEF code
  <2> QED
    BY <1>0, <2>1, <2>3, CarriedOut, Zenon DEF code
<1>13. CASE ListEvents
  <2>1. call.rpc = "Describe" /\ call' = [call EXCEPT !.pc = "convert"]
    BY <1>13 DEF ListEvents, Goto, CallInv
  <2>2. IsCall(call') /\ call'.pc = "convert" /\ call'.rpc = call.rpc
    BY <1>0, <2>1, Moved
  <2> QED
    BY <2>1, <2>2 DEF CallInv, Told, Writes
<1>14. CASE Convert \/ ConvertEventsFails
  <2>1. PICK code \in {"OK", "Internal"} : call' = [call EXCEPT !.pc = "done", !.code = code]
    BY <1>14 DEF Convert, ConvertEventsFails, ConversionFails, Answer
  <2>2. call.rpc \in Writes \cup {"Scale"} => call.wrote = TRUE
    BY <1>14 DEF Convert, ConvertEventsFails, CallInv
  <2> QED
    BY <1>0, <2>1, <2>2, Answered, Zenon
<1>15. CASE Done
  BY <1>15, IdleInv DEF Done
<1>16. CASE Retry \/ RetryScale
  <2>1. call' = call
    BY <1>16, Zenon DEF Retry, RetryScale
  <2> QED
    BY <2>1
<1> QED
  BY <1>2, <1>3, <1>4, <1>5, <1>6, <1>7, <1>8, <1>9, <1>10, <1>11, <1>12, <1>13, <1>14, <1>15,
     <1>16
     DEF CallNext, CallStep

(***************************************************************************)
(* The theorems.                                                           *)
(***************************************************************************)

\* The invariant of a call holds in every state of the API server: streams and
\* other writers leave the call alone.
THEOREM CallAlwaysInv == Spec => []CallInv(call)
<1>1. Init => CallInv(call)
  BY IdleInv DEF Init, CallInit
<1>2. CallInv(call) /\ [Next]_vars => CallInv(call)'
  <2> SUFFICES ASSUME CallInv(call), [Next]_vars
               PROVE  CallInv(call')
    OBVIOUS
  <2>1. CASE CallNext
    BY <2>1, CallKeeps
  <2>2. CASE UNCHANGED call
    BY <2>2
  <2> QED
    BY <2>1, <2>2 DEF Next, vars
<1> QED
  BY <1>1, <1>2, PTL DEF Spec

\* What a client of a unary RPC is told is what happened in the cluster: OK
\* after a write means that it was carried out, and a refusal that the request
\* it answers was not, also when the API server's answer was lost or its result
\* cannot be converted.
THEOREM AlwaysToldWhatHappened == Spec => []ToldWhatHappened
<1>1. CallInv(call) => ToldWhatHappened
  <2> SUFFICES ASSUME CallInv(call)
               PROVE  ToldWhatHappened
    OBVIOUS
  <2>1. Told(call)
    BY DEF CallInv
  <2> QED
    BY <2>1, Zenon DEF Told, ToldWhatHappened
<1> QED
  BY <1>1, CallAlwaysInv, PTL

\* UpdateScale never overwrites a change that another writer made between its
\* GET and its PUT, sent again or not: when it writes, the object still is what
\* it has read.
THEOREM NeverLostUpdate == Spec => NoLostUpdate
<1> DEFINE Step == call.pc = "put" /\ (call'.wrote \/ again' # again)
                      => log[call.base] = Object
<1>1. CallInv(call) /\ [Next]_vars => [Step]_<<log, call, again>>
  <2> SUFFICES ASSUME CallInv(call), [Next]_vars, call.pc = "put",
                      call'.wrote \/ again' # again
               PROVE  log[call.base] = Object
    BY Zenon
  <2>1. call.wrote = FALSE
    BY DEF CallInv
  <2>2. CASE UpdateScale \/ UpdateScaleLost \/ RetryScale
    BY <2>2, Zenon DEF UpdateScale, UpdateScaleLost, RetryScale, PutScale, Current, Object
  <2>3. CASE UNCHANGED <<call, again>>
    BY <2>1, <2>3, Zenon
  <2>4. CASE UpdateScaleFails /\ UNCHANGED again
    <3>1. PICK code : call' = [call EXCEPT !.pc = "done", !.code = code]
      BY <2>4, Zenon DEF UpdateScaleFails, Fail, Answer
    <3>2. IsCall(call)
      BY DEF CallInv
    <3>3. call'.wrote = call.wrote
      BY <3>1, <3>2, CallFieldsKept, Zenon
    <3> QED
      BY <2>1, <2>4, <3>3, Zenon
  <2> QED
    BY <2>2, <2>3, <2>4
       DEF Next, vars, CallNext, CallStep, Retry, Begin, InvalidScale, InvalidRestart, Lookup,
           LookupFails, Prepare,
           PrepareFails, Read, Write, CallFails, AnswerLost, ListEvents, Convert,
           ConvertEventsFails, Done
<1> QED
  BY <1>1, CallAlwaysInv, PTL DEF Spec, NoLostUpdate

(***************************************************************************)
(* Streams.                                                                *)
(***************************************************************************)

\* A stream that cannot be opened is not reported as OK.
LEMMA CodesNotOK ==
    ASSUME NEW err \in {ErrInvalidInput, ErrClusterNotFound, OtherError}
                  \cup {Status(reason) : reason \in Reasons}
    PROVE  CodeOf(err) # "OK"
BY ErrorCodes, Zenon DEF ClientErrors, CallErrors, NoUser

\* Nor is one whose answer breaks off.
LEMMA OtherCode == CodeOf(OtherError) # "OK"
BY CodesNotOK

(***************************************************************************)
(* The invariant of a stream.                                              *)
(***************************************************************************)
Events == [type : EventTypes \cup {"CHUNK"}, version : Nat]

\* The resource version whose state an event carries.
CarriedVersion(e) == IF e.type = "DELETED" THEN e.version - 1 ELSE e.version

\* An event carries a state that object's history l has.
Known(l, e) == e.type \in {"ADDED", "MODIFIED", "DELETED"} => CarriedVersion(e) \in 1..Len(l)

Skipped(l, e) == e.type \in {"ADDED", "MODIFIED", "DELETED"} /\ l[CarriedVersion(e)].odd = TRUE

\* What a stream of kind k hands on in one place: nothing or an event.
Fits(l, k, e) == e \in Events /\ Known(l, e) /\ (e.type = "CHUNK" <=> k = "PodLog")
Slot(l, k, s) == s = <<>> \/ \E e : s = <<e>> /\ Fits(l, k, e)

\* What of it the client is told.
Tellable(l, s) == IF s = <<>> THEN <<>> ELSE IF Skipped(l, s[1]) THEN <<>> ELSE s

StreamTypes ==
    /\ kind # "unary" => log \in Seq(States \cup {Absent}) /\ Len(log) >= 1
    /\ kind \in {"Watch", "PodLog", "unary"}
    /\ handler \in {"open", "select", "send", "done"}
    /\ upstream \in {"none", "open", "ended", "broken"}
    /\ relay \in {"none", "recv", "send", "panicked", "end"}
    /\ chClosed \in BOOLEAN /\ ctxDone \in BOOLEAN
    /\ sent \in Seq(Events) /\ due \in Seq(Events) /\ backlog \in Seq(Events) /\ pos \in Nat
    /\ kind = "Watch" /\ upstream # "none" => pos \in 1..Len(log)

Slots ==
    /\ Slot(log, kind, event) /\ Slot(log, kind, held) /\ Slot(log, kind, offered)
    /\ \A i \in 1..Len(backlog) : Fits(log, kind, backlog[i])

Control ==
    /\ (event # <<>> <=> handler = "send") /\ (held # <<>> <=> relay = "send")
    /\ (chClosed = TRUE <=> relay \in {"panicked", "end"})
    /\ (handler # "done" => outcome = "")
    /\ (upstream = "none" => offered = <<>> /\ relay = "none" /\ backlog = <<>>)
    /\ (handler = "open" => upstream = "none")
    /\ (kind # "Watch" => relay = "none" /\ backlog = <<>>)
    /\ (kind = "unary" => handler = "open")
    /\ (relay = "end" => offered = <<>> /\ upstream \in {"ended", "broken"})
    /\ (kind = "PodLog" => produced = due)
    /\ (kind = "PodLog" /\ upstream = "ended" => offered = <<>>)
    /\ (kind = "PodLog" /\ handler = "send" /\ readErr = "EOF" => upstream = "ended")

\* Concatenation, under a name of its own so that only its laws are used.
Then(p, q) == p \o q

\* What has been sent and what will be, as long as the handler sends.
Pipe == Then(Then(sent, Tellable(log, event)), Tellable(log, held))

Complete == relay # "panicked" /\ due = Then(Pipe, Tellable(log, offered))

Cut ==
    /\ relay = "panicked" \/ (ctxDone = TRUE /\ upstream = "broken" /\ offered = <<>>)
    /\ \E rest \in Seq(Events) : due = Then(Pipe, rest)

Ended ==
    /\ \E rest \in Seq(Events) : due = Then(sent, rest)
    /\ kind = "Watch" /\ outcome = "Unavailable" /\ ctxDone = FALSE /\ relay # "panicked" =>
          sent = due /\ (upstream = "none" \/ relay = "end")
    /\ outcome = "OK" => ctxDone = TRUE \/ (kind = "PodLog" /\ upstream = "ended" /\ sent = due)

Delivery == IF handler = "done" THEN Ended ELSE Complete \/ Cut

StreamInv == StreamTypes /\ Slots /\ Control /\ Delivery

\* An event is skipped when its object cannot be represented.
LEMMA SkippedIsInconvertible ==
    ASSUME NEW e
    PROVE  Inconvertible(e) <=> Skipped(log, e)
BY Zenon DEF Inconvertible, Carried, Skipped, CarriedVersion

\* The two conversions of an event change no event of a watch.
LEMMA EventsKept ==
    ASSUME NEW e \in Events, e.type # "CHUNK"
    PROVE  /\ [e EXCEPT !.type = toCorEventType(@)] = e
           /\ Event(toProtoWatchEventType(e.type), e.version) = e
BY DEF Events, toCorEventType, toProtoWatchEventType, Event

\* What is told of a place is nothing or what it holds.
LEMMA TellableFacts ==
    ASSUME NEW l, NEW k
    PROVE  /\ Tellable(l, <<>>) = <<>>
           /\ \A s : Slot(l, k, s) => Tellable(l, s) \in Seq(Events)
           /\ \A e : Tellable(l, <<e>>) = IF Skipped(l, e) THEN <<>> ELSE <<e>>
           /\ k = "PodLog" => \A s : Slot(l, k, s) => Tellable(l, s) = s
<1>1. \A e : Tellable(l, <<e>>) = IF Skipped(l, e) THEN <<>> ELSE <<e>>
  BY DEF Tellable
<1>2. Tellable(l, <<>>) = <<>>
  BY DEF Tellable
<1>3. ASSUME NEW s, Slot(l, k, s)
      PROVE  Tellable(l, s) \in Seq(Events) /\ (k = "PodLog" => Tellable(l, s) = s)
  <2>0. <<>> \in Seq(Events)
    OBVIOUS
  <2>1. CASE s = <<>>
    BY <2>0, <2>1, <1>2, Zenon
  <2>2. ASSUME NEW e, s = <<e>>, Fits(l, k, e)
        PROVE  Tellable(l, s) \in Seq(Events) /\ (k = "PodLog" => Tellable(l, s) = s)
    <3>1. <<e>> \in Seq(Events) /\ (k = "PodLog" => ~Skipped(l, e))
      BY <2>2 DEF Fits, Skipped
    <3> QED
      BY <2>0, <2>2, <3>1, <1>1, Zenon
  <2> QED
    BY <1>3, <2>1, <2>2 DEF Slot
<1> QED
  BY <1>1, <1>2, <1>3

\* A new state of the object changes nothing about the events there are.
LEMMA LogGrows ==
    ASSUME NEW S, NEW l \in Seq(S), NEW x \in S, NEW k, NEW m, m = Append(l, x)
    PROVE  /\ Len(m) = Len(l) + 1
           /\ \A e : Fits(l, k, e) => Fits(m, k, e) /\ (Skipped(m, e) <=> Skipped(l, e))
           /\ \A s : Slot(l, k, s) => Slot(m, k, s) /\ Tellable(m, s) = Tellable(l, s)
<1>1. Len(m) = Len(l) + 1 /\ \A i \in 1..Len(l) : m[i] = l[i]
  OBVIOUS
<1>2. ASSUME NEW e, Fits(l, k, e)
      PROVE  Fits(m, k, e) /\ (Skipped(m, e) <=> Skipped(l, e))
  <2>1. Len(l) \in Nat
    OBVIOUS
  <2>2. Fits(m, k, e)
    BY <1>1, <1>2, <2>1 DEF Fits, Known, CarriedVersion
  <2>3. CASE e.type \in {"ADDED", "MODIFIED", "DELETED"}
    BY <1>1, <1>2, <2>3 DEF Fits, Known, Skipped
  <2> QED
    BY <2>2, <2>3, Zenon DEF Skipped
<1>3. ASSUME NEW s, Slot(l, k, s)
      PROVE  Slot(m, k, s) /\ Tellable(m, s) = Tellable(l, s)
  <2>1. CASE s = <<>>
    BY <2>1 DEF Slot, Tellable
  <2>2. ASSUME NEW e, s = <<e>>, Fits(l, k, e)
        PROVE  Slot(m, k, s) /\ Tellable(m, s) = Tellable(l, s)
    BY <2>2, <1>2, TellableFacts, Zenon DEF Slot
  <2> QED
    BY <1>3, <2>1, <2>2 DEF Slot
<1> QED
  BY <1>1, <1>2, <1>3

\* Concatenation has a unit and is associative.
LEMMA ThenLaws ==
    /\ \A s \in Seq(Events) : Then(s, <<>>) = s /\ Then(<<>>, s) = s
    /\ \A s, t \in Seq(Events) : Then(s, t) \in Seq(Events)
    /\ \A s, t, u \in Seq(Events) : Then(Then(s, t), u) = Then(s, Then(t, u))
BY ConcatEmptySeq, ConcatProperties, ConcatAssociative DEF Then

\* An event that is offered is due unless it is skipped.
LEMMA Offers ==
    ASSUME NEW e, Offer(e), StreamTypes, Fits(log, kind, e)
    PROVE  /\ offered' = <<e>> /\ Slot(log, kind, offered')
           /\ due' \in Seq(Events)
           /\ due' = Then(due, Tellable(log, offered'))
           /\ kind = "PodLog" /\ produced = due => produced' = due'
<1>1. e \in Events /\ due \in Seq(Events)
  BY DEF StreamTypes, Fits
<1>2. offered' = <<e>> /\ Slot(log, kind, offered')
  BY Zenon DEF Offer, Slot
<1>3. due' = IF Skipped(log, e) THEN due ELSE Append(due, e)
  BY SkippedIsInconvertible, Zenon DEF Offer
<1>4. Append(due, e) = Then(due, <<e>>) /\ Append(due, e) \in Seq(Events)
  BY <1>1, AppendIsConcat DEF Then
<1>5. kind = "PodLog" => ~Skipped(log, e)
  BY DEF Fits, Skipped
<1>6. produced' = Append(produced, e)
  BY DEF Offer
<1>7. due' = Then(due, Tellable(log, offered'))
  BY <1>1, <1>2, <1>3, <1>4, TellableFacts, ThenLaws, Zenon
<1> QED
  BY <1>1, <1>2, <1>3, <1>4, <1>5, <1>6, <1>7

\* What is in the pipe is a sequence of events.
LEMMA PipeType ==
    ASSUME StreamTypes, Slots
    PROVE  /\ Tellable(log, event) \in Seq(Events) /\ Tellable(log, held) \in Seq(Events)
           /\ Tellable(log, offered) \in Seq(Events)
           /\ Then(sent, Tellable(log, event)) \in Seq(Events) /\ Pipe \in Seq(Events)
<1>1. /\ Tellable(log, event) \in Seq(Events) /\ Tellable(log, held) \in Seq(Events)
      /\ Tellable(log, offered) \in Seq(Events)
  BY TellableFacts, Zenon DEF Slots
<1>2. sent \in Seq(Events)
  BY DEF StreamTypes
<1>3. Then(sent, Tellable(log, event)) \in Seq(Events)
  BY <1>1, <1>2, ThenLaws
<1> QED
  BY <1>1, <1>3, ThenLaws DEF Pipe

\* An offer keeps the invariant.
LEMMA OfferKeeps ==
    ASSUME StreamInv, kind # "unary", offered = <<>>, upstream = "open",
           NEW e, Fits(log, kind, e), Offer(e),
           upstream' \in {"open", "ended"}, kind = "PodLog" => upstream' = "open",
           pos' \in Nat, kind = "Watch" => pos' \in 1..Len(log),
           backlog' = backlog \/ (backlog # <<>> /\ backlog' = Tail(backlog)),
           UNCHANGED <<log, kind, handler, outcome, ctxDone, relaying, event, readErr, sent>>
    PROVE  StreamInv'
<1> DEFINE t == Tellable(log, offered')
<1>0. StreamTypes /\ Slots /\ Control /\ Delivery
  BY DEF StreamInv
<1>1. /\ offered' = <<e>> /\ Slot(log, kind, offered')
      /\ due' \in Seq(Events) /\ due' = Then(due, t)
      /\ kind = "PodLog" /\ produced = due => produced' = due'
  BY <1>0, Offers
<1>2. t \in Seq(Events)
  BY <1>1, TellableFacts, Zenon
<1>3. Pipe' = Pipe /\ Pipe \in Seq(Events) /\ sent \in Seq(Events)
  BY <1>0, PipeType DEF Pipe, relaying, StreamTypes
<1>4. backlog' \in Seq(Events) /\ \A i \in 1..Len(backlog') : Fits(log, kind, backlog'[i])
  <2>1. CASE backlog' = backlog
    BY <1>0, <2>1 DEF StreamTypes, Slots
  <2>2. CASE backlog # <<>> /\ backlog' = Tail(backlog)
    BY <1>0, <2>2 DEF StreamTypes, Slots
  <2> QED
    BY <2>1, <2>2
<1>5. StreamTypes'
  BY <1>0, <1>1, <1>4 DEF StreamTypes, relaying
<1>6. Slots'
  BY <1>0, <1>1, <1>4 DEF Slots, relaying
<1>7. Control'
  <2>1. relay # "end" /\ handler # "open"
    BY <1>0, Zenon DEF Control
  <2>2. kind # "Watch" => backlog' = <<>>
    BY <1>0, Zenon DEF Control
  <2> QED
    BY <1>0, <1>1, <2>1, <2>2, Zenon DEF Control, relaying
<1> HIDE DEF t
<1>8. Delivery'
  <2>1. CASE handler = "done"
    <3>1. PICK rest \in Seq(Events) : due = Then(sent, rest)
      BY <1>0, <2>1 DEF Delivery, Ended
    <3>2. due' = Then(sent, Then(rest, t)) /\ Then(rest, t) \in Seq(Events)
      BY <1>1, <1>2, <1>3, <3>1, ThenLaws
    <3> QED
      BY <1>0, <2>1, <3>2 DEF Delivery, Ended, Control, relaying
  <2>2. CASE handler # "done" /\ Complete
    <3>1. Tellable(log, offered) = <<>>
      BY TellableFacts, Zenon
    <3>2. due = Pipe
      BY <1>3, <2>2, <3>1, ThenLaws DEF Complete
    <3> QED
      BY <1>1, <1>3, <2>2, <3>2 DEF Delivery, Complete, t, relaying
  <2>3. CASE handler # "done" /\ Cut
    <3>1. relay = "panicked"
      BY <2>3 DEF Cut
    <3>2. PICK rest \in Seq(Events) : due = Then(Pipe, rest)
      BY <2>3 DEF Cut
    <3>3. due' = Then(Pipe, Then(rest, t)) /\ Then(rest, t) \in Seq(Events)
      BY <1>1, <1>2, <1>3, <3>2, ThenLaws
    <3> QED
      BY <1>3, <2>3, <3>1, <3>3 DEF Delivery, Cut, relaying
  <2> QED
    BY <1>0, <2>1, <2>2, <2>3 DEF Delivery
<1> QED
  BY <1>5, <1>6, <1>7, <1>8 DEF StreamInv

\* Whatever has been lost, what was sent is the beginning of what is due.
LEMMA SentIsPrefix ==
    ASSUME StreamTypes, Slots, Complete \/ Cut
    PROVE  \E rest \in Seq(Events) : due = Then(sent, rest)
<1> DEFINE a == Tellable(log, event)
           b == Tellable(log, held)
           c == Tellable(log, offered)
<1>1. a \in Seq(Events) /\ b \in Seq(Events) /\ c \in Seq(Events) /\ sent \in Seq(Events)
  BY PipeType DEF StreamTypes
<1>2. Pipe = Then(Then(sent, a), b)
  BY DEF Pipe
<1>3. Complete => due = Then(Pipe, c)
  BY DEF Complete
<1> HIDE DEF a, b, c
<1>4. PICK rest \in Seq(Events) : due = Then(Pipe, rest)
  BY <1>1, <1>3 DEF Cut
<1>5. Then(a, b) \in Seq(Events) /\ Pipe = Then(sent, Then(a, b))
  BY <1>1, <1>2, ThenLaws
<1>6. /\ Then(Then(a, b), rest) \in Seq(Events)
      /\ due = Then(sent, Then(Then(a, b), rest))
  BY <1>1, <1>4, <1>5, ThenLaws
<1> QED
  BY <1>6

\* A handler that returns with an error of its own, or with the context done,
\* has sent the beginning of what is due.
LEMMA FinishKeeps ==
    ASSUME StreamInv, kind # "unary", handler # "done", NEW code, Finish(code),
           event' = <<>>,
           UNCHANGED <<log, kind, ctxDone, source, relaying, readErr, sent>>,
           code = "OK" => ctxDone = TRUE \/ (kind = "PodLog" /\ upstream = "ended" /\ sent = due),
           kind = "Watch" /\ code = "Unavailable" /\ ctxDone = FALSE /\ relay # "panicked" =>
              sent = due /\ (upstream = "none" \/ relay = "end")
    PROVE  StreamInv'
<1>0. StreamTypes /\ Slots /\ Control /\ Delivery
  BY DEF StreamInv
<1>1. StreamTypes'
  BY <1>0 DEF StreamTypes, source, history, relaying, Finish
<1>2. Slots'
  BY <1>0 DEF Slots, Slot, source, relaying
<1>3. Control'
  BY <1>0, Zenon DEF Control, source, history, relaying, Finish
<1>4. \E rest \in Seq(Events) : due = Then(sent, rest)
  BY <1>0, SentIsPrefix DEF Delivery
<1>5. Delivery'
  BY <1>4 DEF Delivery, Ended, source, history, relaying, Finish
<1> QED
  BY <1>1, <1>2, <1>3, <1>5 DEF StreamInv

\* A step of the API server or of client-go keeps the invariant.
LEMMA SourceKeeps ==
    ASSUME StreamInv, kind # "unary",
           OfferEvent \/ OfferChunk \/ UpstreamEnds \/ UpstreamStops \/ CtxDone
    PROVE  StreamInv'
<1>0. StreamTypes /\ Slots /\ Control /\ Delivery
  BY DEF StreamInv
<1>1. CASE OfferEvent
  <2>0. /\ offered = <<>> /\ upstream = "open" /\ kind = "Watch" /\ pos \in 1..Len(log)
        /\ UNCHANGED <<log, kind, handler, outcome, ctxDone, upstream, relaying, event, readErr,
                       sent>>
    BY <1>0, <1>1 DEF OfferEvent, StreamTypes
  <2>1. CASE backlog # <<>> /\ Offer(Head(backlog)) /\ backlog' = Tail(backlog) /\ pos' = pos
    <3>1. Fits(log, kind, Head(backlog))
      BY <1>0, <2>1 DEF StreamTypes, Slots
    <3>2. pos' \in Nat
      BY <1>0, <2>1 DEF StreamTypes
    <3> QED
      BY <2>0, <2>1, <3>1, <3>2, OfferKeeps
  <2>2. CASE pos < Version /\ Offer(Change(pos + 1)) /\ pos' = pos + 1 /\ backlog' = backlog
    <3>0. Len(log) \in Nat /\ pos \in Nat
      BY <1>0, <2>0 DEF StreamTypes
    <3>1. pos' \in 1..Len(log) /\ pos' \in Nat
      BY <2>0, <2>2, <3>0 DEF Version
    <3>2. \E type \in {"ADDED", "MODIFIED", "DELETED"} : Change(pos + 1) = Event(type, pos + 1)
      BY DEF Change
    <3>3. Fits(log, kind, Change(pos + 1))
      BY <2>0, <2>2, <3>0, <3>2
         DEF Fits, Events, EventTypes, Known, CarriedVersion, Event, Version
    <3> QED
      BY <2>0, <2>2, <3>1, <3>3, OfferKeeps
  <2>3. CASE Offer(Event("BOOKMARK", pos)) /\ backlog' = backlog /\ pos' = pos
    <3>1. Fits(log, kind, Event("BOOKMARK", pos)) /\ pos \in Nat
      BY <1>0, <2>0 DEF Fits, Events, EventTypes, Known, Event, StreamTypes
    <3> QED
      BY <2>0, <2>3, <3>1, OfferKeeps
  <2> QED
    BY <1>1, <2>1, <2>2, <2>3 DEF OfferEvent
<1>2. CASE OfferChunk
  <2>1. Fits(log, kind, Event("CHUNK", pos + 1)) /\ pos' \in Nat
    BY <1>0, <1>2 DEF OfferChunk, Fits, Events, Known, Event, StreamTypes
  <2> QED
    BY <1>2, <2>1, OfferKeeps DEF OfferChunk
<1>3. CASE UpstreamEnds
  <2>1. CASE Offer(Event("ERROR", pos)) /\ upstream' = "ended" /\ kind = "Watch" /\ offered = <<>>
    <3>1. Fits(log, kind, Event("ERROR", pos)) /\ pos \in Nat /\ upstream = "open"
          /\ pos \in 1..Len(log)
      BY <1>0, <1>3, <2>1 DEF Fits, Events, EventTypes, Known, Event, StreamTypes, UpstreamEnds
    <3> QED
      BY <1>3, <2>1, <3>1, OfferKeeps DEF UpstreamEnds
  <2>2. CASE UNCHANGED <<offered, history>>
    <3>1. /\ upstream = "open"
          /\ upstream' = "broken" \/ (upstream' = "ended" /\ offered = <<>>)
          /\ UNCHANGED <<log, kind, handler, outcome, ctxDone, backlog, pos, relaying, event,
                         readErr, sent>>
      BY <1>3, <2>2 DEF UpstreamEnds, Offer
    <3>2. StreamTypes' /\ Slots'
      BY <1>0, <2>2, <3>1 DEF StreamTypes, Slots, history, relaying
    <3>3. Control'
      BY <1>0, <2>2, <3>1, Zenon DEF Control, history, relaying
    <3>4. Delivery'
      BY <1>0, <2>2, <3>1, Zenon DEF Delivery, Ended, Complete, Cut, Pipe, Control, history,
         relaying
    <3> QED
      BY <3>2, <3>3, <3>4 DEF StreamInv
  <2> QED
    BY <1>3, <2>1, <2>2 DEF UpstreamEnds
<1>4. CASE UpstreamStops
  <2>1. /\ upstream' = "broken" /\ offered' = <<>> /\ upstream # "none"
        /\ ctxDone = TRUE \/ handler = "done"
        /\ upstream = "open" \/ offered # <<>>
        /\ UNCHANGED <<log, kind, handler, outcome, ctxDone, backlog, pos, history, relaying,
                       event, readErr, sent>>
    BY <1>0, <1>4 DEF UpstreamStops, StreamTypes
  <2>2. StreamTypes' /\ Slots'
    BY <1>0, <2>1 DEF StreamTypes, Slots, Slot, history, relaying
  <2>3. Control'
    BY <1>0, <2>1, Zenon DEF Control, history, relaying
  <2>4. ASSUME handler = "done" PROVE Delivery'
    BY <1>0, <2>1, <2>4 DEF Delivery, Ended, Control, history, relaying
  <2>5. ASSUME handler # "done" PROVE Delivery'
    <3>1. \E rest \in Seq(Events) : due = Then(Pipe, rest)
      BY <1>0, <2>5, PipeType DEF Delivery, Complete, Cut
    <3> QED
      BY <2>1, <2>5, <3>1 DEF Delivery, Cut, Pipe, history, relaying
  <2> QED
    BY <2>2, <2>3, <2>4, <2>5 DEF StreamInv
<1>5. CASE CtxDone
  <2>1. /\ ctxDone' = TRUE
        /\ UNCHANGED <<log, kind, handler, outcome, source, relaying, event, readErr, sent>>
    BY <1>5 DEF CtxDone
  <2>2. StreamTypes' /\ Slots'
    BY <1>0, <2>1 DEF StreamTypes, Slots, source, history, relaying
  <2>3. Control'
    BY <1>0, <2>1, Zenon DEF Control, source, history, relaying
  <2>4. Delivery'
    BY <1>0, <2>1 DEF Delivery, Ended, Complete, Cut, Pipe, source, history, relaying
  <2> QED
    BY <2>2, <2>3, <2>4 DEF StreamInv
<1> QED
  BY <1>1, <1>2, <1>3, <1>4, <1>5

\* A step of the relay keeps the invariant.
LEMMA RelayKeeps ==
    ASSUME StreamInv, kind # "unary", RelayStep
    PROVE  StreamInv'
<1>0. StreamTypes /\ Slots /\ Control /\ Delivery
  BY DEF StreamInv
<1>1. kind = "Watch" /\ relay = "recv" /\ held = <<>> /\ Tellable(log, held) = <<>>
  BY <1>0, TellableFacts, Zenon DEF RelayStep, RelayReceives, RelayPanics, RelayEnds, StreamTypes,
     Control
<1>2. /\ sent \in Seq(Events) /\ Pipe \in Seq(Events)
      /\ Then(sent, Tellable(log, event)) \in Seq(Events) /\ Tellable(log, offered) \in Seq(Events)
  BY <1>0, PipeType DEF StreamTypes
<1>3. CASE RelayReceives
  <2>1. PICK e : offered = <<e>> /\ Fits(log, kind, e)
    BY <1>0, <1>3 DEF RelayReceives, Slots, Slot
  <2>2. /\ relay' = "send" /\ offered' = <<>> /\ held' = offered
        /\ UNCHANGED <<log, kind, handler, outcome, ctxDone, upstream, backlog, pos, history,
                       chClosed, event, readErr, sent>>
    <3>1. held' = <<[e EXCEPT !.type = toCorEventType(@)]>>
      BY <1>3, <2>1 DEF RelayReceives
    <3>2. e \in Events /\ e.type # "CHUNK"
      BY <1>1, <2>1 DEF Fits
    <3> QED
      BY <1>3, <2>1, <3>1, <3>2, EventsKept DEF RelayReceives
  <2>3. StreamTypes' /\ Slots'
    BY <1>0, <2>2 DEF StreamTypes, Slots, Slot, history
  <2>4. Control'
    BY <1>0, <1>1, <2>1, <2>2, Zenon DEF Control, history
  <2>5. ASSUME handler = "done" PROVE Delivery'
    BY <1>0, <1>1, <2>2, <2>5 DEF Delivery, Ended, Control, history
  <2>6. ASSUME handler # "done" PROVE Delivery'
    <3>1. due = Then(Pipe, Tellable(log, offered))
      BY <1>0, <1>1, <2>1, <2>6 DEF Delivery, Complete, Cut
    <3>2. Pipe = Then(sent, Tellable(log, event))
      BY <1>1, <1>2, ThenLaws DEF Pipe
    <3>3. Pipe' = due /\ due \in Seq(Events)
      BY <1>0, <2>2, <3>1, <3>2 DEF Pipe, StreamTypes
    <3>4. Tellable(log', offered') = <<>>
      BY <2>2, TellableFacts
    <3>5. due' = Then(Pipe', Tellable(log', offered'))
      BY <2>2, <3>3, <3>4, ThenLaws DEF history
    <3> QED
      BY <2>2, <2>6, <3>5 DEF Delivery, Complete
  <2> QED
    BY <2>3, <2>4, <2>5, <2>6 DEF StreamInv
<1>4. CASE RelayPanics
  <2>1. /\ relay' = "panicked" /\ chClosed' = TRUE /\ offered' = <<>> /\ upstream # "none"
        /\ UNCHANGED <<log, kind, handler, outcome, ctxDone, upstream, backlog, pos, history,
                       held, event, readErr, sent>>
    BY <1>0, <1>4, ZenonT(30) DEF RelayPanics, Control
  <2>2. StreamTypes' /\ Slots'
    BY <1>0, <2>1 DEF StreamTypes, Slots, Slot, history
  <2>3. Control'
    BY <1>0, <1>1, <2>1, Zenon DEF Control, history
  <2>4. ASSUME handler = "done" PROVE Delivery'
    BY <1>0, <1>1, <2>1, <2>4 DEF Delivery, Ended, Control, history
  <2>5. ASSUME handler # "done" PROVE Delivery'
    <3>1. \E rest \in Seq(Events) : due = Then(Pipe, rest)
      BY <1>0, <1>2, <2>5 DEF Delivery, Complete, Cut
    <3> QED
      BY <2>1, <2>5, <3>1 DEF Delivery, Cut, Pipe, history
  <2> QED
    BY <2>2, <2>3, <2>4, <2>5 DEF StreamInv
<1>5. CASE RelayEnds
  <2>1. /\ relay' = "end" /\ chClosed' = TRUE /\ offered = <<>> /\ upstream \in {"ended", "broken"}
        /\ UNCHANGED <<log, kind, handler, outcome, ctxDone, source, held, event, readErr, sent>>
    BY <1>5 DEF RelayEnds
  <2>2. StreamTypes' /\ Slots'
    BY <1>0, <2>1 DEF StreamTypes, Slots, source, history
  <2>3. Control'
    BY <1>0, <1>1, <2>1, Zenon DEF Control, source, history
  <2>4. Delivery'
    BY <1>0, <1>1, <2>1 DEF Delivery, Ended, Complete, Cut, Pipe, source, history
  <2> QED
    BY <2>2, <2>3, <2>4 DEF StreamInv
<1> QED
  BY <1>3, <1>4, <1>5 DEF RelayStep

\* A step of the handler of Watch keeps the invariant.
LEMMA WatchKeeps ==
    ASSUME StreamInv, kind # "unary",
           OpenWatch \/ WatchReceives \/ WatchClosed \/ WatchCancelled \/ WatchForwards
    PROVE  StreamInv'
<1>0. StreamTypes /\ Slots /\ Control /\ Delivery
  BY DEF StreamInv
<1>1. kind = "Watch" /\ handler # "done"
  BY DEF OpenWatch, WatchReceives, WatchClosed, WatchCancelled, WatchForwards
<1>2. /\ sent \in Seq(Events) /\ due \in Seq(Events) /\ Pipe \in Seq(Events)
      /\ Tellable(log, event) \in Seq(Events) /\ Tellable(log, held) \in Seq(Events)
      /\ Tellable(log, offered) \in Seq(Events) /\ Tellable(log, <<>>) = <<>>
  BY <1>0, PipeType, TellableFacts, Zenon DEF StreamTypes
<1>3. CASE OpenWatch
  <2>1. /\ handler = "open" /\ upstream = "none" /\ relay = "none"
        /\ held = <<>> /\ chClosed = FALSE
        /\ event = <<>> /\ offered = <<>>
    BY <1>0, <1>3, Zenon DEF OpenWatch, Control, StreamTypes
  <2>2. /\ handler' = "select" /\ upstream' = "open" /\ relay' = "recv"
        /\ UNCHANGED <<log, kind, outcome, ctxDone, offered, history, held, chClosed, event,
                       readErr, sent>>
    BY <1>3 DEF OpenWatch
  <2>3. Len(log) \in Nat /\ Len(log) >= 1
    BY <1>0, <1>1 DEF StreamTypes
  <2>4. pos' \in 1..Len(log) /\ pos' \in Nat
    BY <1>3, <2>3 DEF OpenWatch, Version
  <2>5. Fits(log, kind, Event("ADDED", Len(log))) /\ Fits(log, kind, Event("BOOKMARK", Len(log)))
    BY <1>1, <2>3 DEF Fits, Events, EventTypes, Known, CarriedVersion, Event
  <2>6. backlog' \in Seq(Events) /\ \A i \in 1..Len(backlog') : Fits(log, kind, backlog'[i])
    <3>1. ASSUME NEW t \in Seq(Events), \A i \in 1..Len(t) : Fits(log, kind, t[i]),
                 NEW e, Fits(log, kind, e)
          PROVE  /\ Append(t, e) \in Seq(Events)
                 /\ \A i \in 1..Len(Append(t, e)) : Fits(log, kind, Append(t, e)[i])
      <4>1. e \in Events
        BY <3>1 DEF Fits
      <4> QED
        BY <3>1, <4>1
    <3>2. Current0 \in Seq(Events) /\ \A i \in 1..Len(Current0) : Fits(log, kind, Current0[i])
      <4>1. CASE Current0 = <<>>
        BY <4>1
      <4>2. CASE Current0 = <<Event("ADDED", Len(log))>>
        <5>1. Event("ADDED", Len(log)) \in Events
          BY <2>5 DEF Fits
        <5> QED
          BY <2>5, <4>2, <5>1
      <4> QED
        BY <4>1, <4>2, Zenon DEF Current0, Version
    <3>3. CASE backlog' = <<>>
      BY <3>3
    <3>4. CASE backlog' = Current0
      BY <3>2, <3>4
    <3>5. CASE backlog' = Append(Current0, Event("BOOKMARK", Len(log)))
      BY <2>5, <3>1, <3>2, <3>5, ZenonT(30)
    <3> QED
      BY <1>3, <3>3, <3>4, <3>5, Zenon DEF OpenWatch, Version
  <2>7. StreamTypes' /\ Slots'
    BY <1>0, <2>2, <2>4, <2>6 DEF StreamTypes, Slots, history
  <2>8. Control'
    BY <1>0, <1>1, <2>1, <2>2, Zenon DEF Control, history
  <2>9. Delivery'
    BY <1>0, <1>1, <2>1, <2>2 DEF Delivery, Complete, Cut, Pipe, history
  <2> QED
    BY <2>7, <2>8, <2>9 DEF StreamInv
<1>4. CASE WatchReceives
  <2>1. /\ handler = "select" /\ relay = "send" /\ event = <<>> /\ held # <<>>
        /\ handler' = "send" /\ event' = held /\ relay' = "recv" /\ held' = <<>>
        /\ UNCHANGED <<log, kind, outcome, ctxDone, source, chClosed, readErr, sent>>
    BY <1>0, <1>4, ZenonT(30) DEF WatchReceives, Control
  <2>2. StreamTypes' /\ Slots'
    BY <1>0, <2>1 DEF StreamTypes, Slots, Slot, source, history
  <2>3. Control'
    BY <1>0, <1>1, <2>1, Zenon DEF Control, source, history
  <2>4. Pipe' = Pipe
    BY <1>2, <2>1, ThenLaws DEF Pipe
  <2>5. Delivery'
    BY <1>0, <1>1, <2>1, <2>4 DEF Delivery, Complete, Cut, source, history
  <2> QED
    BY <2>2, <2>3, <2>5 DEF StreamInv
<1>5. CASE WatchClosed
  <2>1. handler = "select" /\ chClosed = TRUE /\ event = <<>> /\ relay \in {"panicked", "end"}
    BY <1>0, <1>5, Zenon DEF WatchClosed, Control, StreamTypes
  <2>2. ASSUME ctxDone = FALSE, relay # "panicked"
        PROVE  sent = due
    <3>1. Complete /\ relay = "end" /\ held = <<>> /\ offered = <<>>
      BY <1>0, <1>1, <2>1, <2>2, Zenon DEF Delivery, Cut, Control
    <3>2. due = Then(Then(Then(sent, <<>>), <<>>), <<>>)
      BY <1>2, <2>1, <3>1 DEF Complete, Pipe
    <3> QED
      BY <1>2, <3>2, ThenLaws
  <2> QED
    BY <1>1, <1>5, <2>1, <2>2, FinishKeeps, Zenon DEF WatchClosed
<1>6. CASE WatchCancelled
  <2>1. event = <<>> /\ ctxDone = TRUE
    BY <1>0, <1>6, Zenon DEF WatchCancelled, Control, StreamTypes
  <2> QED
    BY <1>1, <1>6, <2>1, FinishKeeps DEF WatchCancelled
<1>7. CASE WatchForwards
  <2>1. PICK e : event = <<e>> /\ Fits(log, kind, e)
    BY <1>0, <1>7, Zenon DEF WatchForwards, Slots, Slot, Control
  <2>2. processEvent(e) = Tellable(log, event)
    <3>1. e \in Events /\ e.type # "CHUNK"
      BY <1>1, <2>1 DEF Fits
    <3>2. Event(toProtoWatchEventType(e.type), e.version) = e
      BY <3>1, EventsKept
    <3>3. Tellable(log, event) = IF Skipped(log, e) THEN <<>> ELSE <<e>>
      BY <2>1, TellableFacts
    <3> QED
      BY <3>2, <3>3, SkippedIsInconvertible, Zenon DEF processEvent
  <2>3. /\ handler = "send" /\ handler' = "select" /\ event' = <<>>
        /\ UNCHANGED <<log, kind, outcome, ctxDone, source, relaying, readErr>>
    BY <1>7 DEF WatchForwards
  <2>4. sent' = Then(sent, Tellable(log, event)) /\ sent' \in Seq(Events)
    <3>1. Head(event) = e
      BY <2>1
    <3>2. sent' = sent \o processEvent(e)
      BY <1>7, <3>1 DEF WatchForwards
    <3>3. sent' = Then(sent, Tellable(log, event))
      BY <2>2, <3>2, ZenonT(30) DEF Then
    <3> QED
      BY <1>2, <3>3, ThenLaws
  <2>5. StreamTypes' /\ Slots'
    BY <1>0, <2>3, <2>4 DEF StreamTypes, Slots, Slot, source, history, relaying
  <2>6. Control'
    BY <1>0, <1>1, <2>3, Zenon DEF Control, source, history, relaying
  <2>7. Pipe' = Pipe
    BY <1>2, <2>3, <2>4, ThenLaws DEF Pipe, relaying
  <2>8. Delivery'
    BY <1>0, <1>1, <2>3, <2>7 DEF Delivery, Complete, Cut, source, history, relaying
  <2> QED
    BY <2>5, <2>6, <2>8 DEF StreamInv
<1> QED
  BY <1>3, <1>4, <1>5, <1>6, <1>7

\* A step of the handler of PodLog, a stream that cannot be opened and a send
\* that fails keep the invariant.
LEMMA LogKeeps ==
    ASSUME StreamInv, kind # "unary",
           OpenLog \/ OpenFails \/ SendFails \/ LogReads \/ LogForwards \/ LogEnds
    PROVE  StreamInv'
<1>0. StreamTypes /\ Slots /\ Control /\ Delivery
  BY DEF StreamInv
<1>1. handler # "done"
  BY DEF OpenLog, OpenFails, SendFails, LogReads, LogForwards, LogEnds
<1>2. /\ sent \in Seq(Events) /\ due \in Seq(Events) /\ Pipe \in Seq(Events)
      /\ Tellable(log, event) \in Seq(Events) /\ Tellable(log, held) \in Seq(Events)
      /\ Tellable(log, offered) \in Seq(Events) /\ Tellable(log, <<>>) = <<>>
  BY <1>0, PipeType, TellableFacts, Zenon DEF StreamTypes
<1>3. ASSUME kind = "PodLog"
      PROVE  /\ relay = "none" /\ held = <<>> /\ Tellable(log, event) = event
             /\ Pipe = Then(sent, event)
  <2>1. relay = "none" /\ held = <<>>
    BY <1>0, <1>3, Zenon DEF Control
  <2>2. Tellable(log, event) = event
    BY <1>0, <1>3, TellableFacts, Zenon DEF Slots
  <2>3. Then(sent, event) \in Seq(Events)
    BY <1>2, <2>2, ThenLaws
  <2> QED
    BY <1>2, <2>1, <2>2, <2>3, ThenLaws DEF Pipe
<1>4. CASE OpenLog
  <2>1. /\ handler = "open" /\ handler' = "select" /\ upstream' = "open" /\ kind = "PodLog"
        /\ offered = <<>> /\ upstream = "none"
        /\ UNCHANGED <<log, kind, outcome, ctxDone, backlog, pos, offered, history, relaying, event,
                       readErr, sent>>
    BY <1>0, <1>4, Zenon DEF OpenLog, Control
  <2>2. StreamTypes' /\ Slots'
    BY <1>0, <2>1 DEF StreamTypes, Slots, history, relaying
  <2>3. Control'
    BY <1>0, <2>1, Zenon DEF Control, history, relaying
  <2>4. Delivery'
    BY <1>0, <1>1, <2>1 DEF Delivery, Complete, Cut, Pipe, history, relaying
  <2> QED
    BY <2>2, <2>3, <2>4 DEF StreamInv
<1>5. CASE OpenFails
  <2>1. PICK err \in {ErrInvalidInput, ErrClusterNotFound, OtherError}
                     \cup {Status(reason) : reason \in Reasons} : Finish(CodeOf(err))
    BY <1>5 DEF OpenFails
  <2>2. CodeOf(err) # "OK"
    BY CodesNotOK
  <2>3. /\ handler = "open" /\ upstream = "none" /\ offered = <<>> /\ relay = "none" /\ held = <<>>
        /\ event = <<>>
        /\ UNCHANGED <<log, kind, ctxDone, source, relaying, event, readErr, sent>>
    BY <1>0, <1>5, Zenon DEF OpenFails, Control
  <2>4. sent = due
    <3>1. Complete
      BY <1>0, <1>1, <2>3 DEF Delivery, Cut
    <3>2. due = Then(Then(Then(sent, <<>>), <<>>), <<>>)
      BY <1>2, <2>3, <3>1 DEF Complete, Pipe
    <3> QED
      BY <1>2, <3>2, ThenLaws
  <2> HIDE DEF Finish
  <2> QED
    BY <1>1, <2>1, <2>2, <2>3, <2>4, FinishKeeps, Zenon
<1>6. CASE SendFails
  BY <1>1, <1>6, FinishKeeps, Zenon DEF SendFails
<1>7. CASE LogReads
  <2>1. /\ kind = "PodLog" /\ handler = "select" /\ handler' = "send" /\ event = <<>>
        /\ offered # <<>> /\ event' = offered /\ offered' = <<>> /\ upstream # "none"
        /\ upstream' = upstream \/ (upstream = "open" /\ upstream' = "ended")
        /\ readErr' = "EOF" => upstream' = "ended"
        /\ UNCHANGED <<log, kind, outcome, ctxDone, backlog, pos, history, relaying, sent>>
    BY <1>0, <1>7, ZenonT(30) DEF LogReads, Control
  <2>2. StreamTypes' /\ Slots'
    BY <1>0, <2>1 DEF StreamTypes, Slots, Slot, history, relaying
  <2>3. Control'
    BY <1>0, <2>1, Zenon DEF Control, history, relaying
  <2>4. due = Then(Then(sent, <<>>), Tellable(log, offered))
    BY <1>0, <1>1, <1>3, <2>1 DEF Delivery, Complete, Cut
  <2>5. due = Then(sent, Tellable(log, offered))
    BY <1>2, <2>4, ThenLaws, SMTT(30)
  <2>6. Pipe' = due
    BY <1>0, <1>2, <1>3, <2>1, <2>5, ThenLaws DEF Pipe, relaying
  <2>7. due' = Then(Pipe', Tellable(log', offered'))
    BY <1>2, <2>1, <2>6, ThenLaws, ZenonT(30) DEF history
  <2>8. Delivery'
    BY <1>3, <2>1, <2>7 DEF Delivery, Complete, relaying
  <2> QED
    BY <2>2, <2>3, <2>8 DEF StreamInv
<1>8. CASE LogForwards
  <2>1. /\ kind = "PodLog" /\ handler = "send" /\ event' = <<>> /\ sent' = Then(sent, event)
        /\ handler' \in {"select", "done"}
        /\ handler' = "select" => outcome' = outcome
        /\ handler' = "done" => outcome' = LogEnd(readErr)
        /\ UNCHANGED <<log, kind, ctxDone, source, relaying, readErr>>
    BY <1>8 DEF LogForwards, Finish, Then
  <2>2. Pipe = sent' /\ sent' \in Seq(Events) /\ Pipe' = sent'
    <3>1. Pipe = sent' /\ sent' \in Seq(Events) /\ held = <<>>
      BY <1>2, <1>3, <2>1
    <3>2. Tellable(log', event') = <<>> /\ Tellable(log', held') = <<>>
      BY <1>2, <2>1, <3>1, SMTT(30) DEF relaying
    <3> QED
      BY <3>1, <3>2, ThenLaws DEF Pipe
  <2>3. StreamTypes' /\ Slots'
    BY <1>0, <2>1, <2>2 DEF StreamTypes, Slots, Slot, source, history, relaying
  <2>4. Control'
    BY <1>0, <2>1, Zenon DEF Control, source, history, relaying
  <2>5. ASSUME handler' = "select" PROVE Delivery'
    BY <1>0, <1>1, <2>1, <2>2, <2>5 DEF Delivery, Complete, Cut, source, history, relaying
  <2>6. ASSUME handler' = "done" PROVE Delivery'
    <3>1. \E rest \in Seq(Events) : due = Then(Pipe, rest)
      BY <1>0, <1>1, <1>2 DEF Delivery, Complete, Cut
    <3>2. ASSUME outcome' = "OK", ctxDone = FALSE
          PROVE  upstream = "ended" /\ sent' = due
      <4>1. readErr = "EOF"
        BY <2>1, <2>6, <3>2, OtherCode DEF LogEnd
      <4>2. upstream = "ended" /\ offered = <<>>
        BY <1>0, <2>1, <4>1, Zenon DEF Control
      <4>3. due = Then(Pipe, <<>>)
        BY <1>0, <1>1, <1>2, <1>3, <2>1, <3>2, <4>2 DEF Delivery, Complete, Cut
      <4> QED
        BY <1>2, <2>2, <4>2, <4>3, ThenLaws
    <3>3. ctxDone \in BOOLEAN
      BY <1>0 DEF StreamTypes
    <3> QED
      BY <2>1, <2>2, <2>6, <3>1, <3>2, <3>3, Zenon DEF Delivery, Ended, source, history, relaying
  <2> QED
    BY <2>1, <2>3, <2>4, <2>5, <2>6 DEF StreamInv
<1>9. CASE LogEnds
  <2>1. kind = "PodLog" /\ handler = "select" /\ offered = <<>> /\ event = <<>>
    BY <1>0, <1>9, Zenon DEF LogEnds, Control
  <2>2. PICK code : /\ Finish(code) /\ (code = "OK" => upstream = "ended")
    BY <1>9, OtherCode DEF LogEnds, LogEnd
  <2>3. ctxDone = FALSE => sent = due
    <3>1. ctxDone = FALSE => due = Then(Then(sent, <<>>), <<>>)
      BY <1>0, <1>1, <1>2, <1>3, <2>1 DEF Delivery, Complete, Cut
    <3> QED
      BY <1>2, <3>1, ThenLaws
  <2>4. ctxDone \in BOOLEAN
    BY <1>0 DEF StreamTypes
  <2> HIDE DEF Finish
  <2> QED
    BY <1>1, <1>9, <2>1, <2>2, <2>3, <2>4, FinishKeeps, Zenon DEF LogEnds
<1> QED
  BY <1>4, <1>5, <1>6, <1>7, <1>8, <1>9

\* Another state of the object leaves everything in the pipe as it is.
LEMMA WriterKeeps ==
    ASSUME StreamInv, kind # "unary", OtherWriter, UNCHANGED streamVars
    PROVE  StreamInv'
<1>0. StreamTypes /\ Slots /\ Control /\ Delivery
  BY DEF StreamInv
<1> DEFINE S == States \cup {Absent}
<1>1. PICK s \in S : log' = Append(log, s)
  BY DEF OtherWriter, Store
<1>2. log \in Seq(S) /\ Len(log) \in Nat
  BY <1>0 DEF StreamTypes
<1> HIDE DEF S
<1>3. /\ Len(log') = Len(log) + 1
      /\ \A e : Fits(log, kind, e) => Fits(log', kind, e)
      /\ \A t : Slot(log, kind, t) => Slot(log', kind, t) /\ Tellable(log', t) = Tellable(log, t)
  BY <1>1, <1>2, LogGrows, Zenon
<1>7. log' \in Seq(S)
  BY <1>1, <1>2
<1>4. StreamTypes' /\ Slots' /\ Control'
  <2>1. StreamTypes'
    <3>1. Len(log') >= 1 /\ \A j \in 1..Len(log) : j \in 1..Len(log')
      BY <1>2, <1>3
    <3>2. UNCHANGED <<kind, handler, upstream, relay, chClosed, ctxDone, sent, due, backlog, pos>>
      BY Zenon DEF streamVars
    <3> QED  BY <1>0, <1>7, <3>1, <3>2, Zenon DEF StreamTypes, S
  <2>2. Slots'
    BY <1>0, <1>3 DEF Slots, streamVars
  <2>3. Control'
    BY <1>0, Zenon DEF Control, streamVars
  <2> QED
    BY <2>1, <2>2, <2>3, SMTT(30)
<1>5. /\ Tellable(log', event) = Tellable(log, event) /\ Tellable(log', held) = Tellable(log, held)
      /\ Tellable(log', offered) = Tellable(log, offered)
  BY <1>0, <1>3, SMTT(30) DEF Slots
<1>6. Delivery'
  BY <1>0, <1>5 DEF Delivery, Ended, Complete, Cut, Pipe, streamVars
<1> QED
  BY <1>4, <1>6 DEF StreamInv

\* Unary calls have no stream.
LEMMA CallLeavesStreams ==
    ASSUME StreamInv, kind = "unary", UNCHANGED streamVars
    PROVE  StreamInv'
<1>0. StreamTypes /\ Slots /\ Control /\ Delivery
  BY DEF StreamInv
<1>1. /\ handler = "open" /\ event = <<>> /\ held = <<>> /\ offered = <<>> /\ backlog = <<>>
      /\ relay = "none" /\ upstream = "none"
  BY <1>0, Zenon DEF Control
<1>2. StreamTypes' /\ Control'
  BY <1>0, Zenon DEF StreamTypes, Control, streamVars
<1>3. Slots'
  BY <1>1 DEF Slots, Slot, streamVars
<1>4. Tellable(log, <<>>) = <<>> /\ Tellable(log', <<>>) = <<>>
  BY TellableFacts, ZenonT(30)
<1>5. Delivery'
  BY <1>0, <1>1, <1>4 DEF Delivery, Complete, Cut, Pipe, streamVars
<1> QED
  BY <1>2, <1>3, <1>5 DEF StreamInv

\* The invariant of a stream holds in every state of the API server.
THEOREM StreamAlwaysInv == Spec => []StreamInv
<1>1. Init => StreamInv
  <2> SUFFICES ASSUME Init
               PROVE  StreamInv
    OBVIOUS
  <2>1. PICK s \in States \cup {Absent} : log = <<s>>
    BY DEF Init, ObjectInit
  <2>2. log \in Seq(States \cup {Absent}) /\ Len(log) >= 1
    BY <2>1
  <2>3. /\ kind \in {"Watch", "PodLog", "unary"} /\ handler = "open"
        /\ outcome = "" /\ ctxDone = FALSE
        /\ upstream = "none" /\ backlog = <<>> /\ pos = 0 /\ offered = <<>> /\ relay = "none"
        /\ held = <<>> /\ chClosed = FALSE /\ event = <<>> /\ produced = <<>> /\ due = <<>>
        /\ sent = <<>>
    BY Zenon DEF Init, StreamInit
  <2>4. /\ <<>> \in Seq(Events) /\ 1..Len(<<>>) = {} /\ Tellable(log, <<>>) = <<>>
    BY TellableFacts
  <2>5. StreamTypes /\ Slots /\ Control
    <3>1. StreamTypes
      BY <2>2, <2>3, <2>4, Zenon DEF StreamTypes
    <3>2. Slots
      BY <2>3, <2>4, Zenon DEF Slots, Slot
    <3>3. Control
      BY <2>3, Zenon DEF Control
    <3> QED
      BY <3>1, <3>2, <3>3
  <2>6. Delivery
    BY <2>3, <2>4, ThenLaws, Zenon DEF Delivery, Complete, Pipe
  <2> QED
    BY <2>5, <2>6 DEF StreamInv
<1>2. StreamInv /\ [Next]_vars => StreamInv'
  <2> SUFFICES ASSUME StreamInv, [Next]_vars
               PROVE  StreamInv'
    OBVIOUS
  <2>1. CASE kind = "unary" /\ UNCHANGED streamVars
    BY <2>1, CallLeavesStreams
  <2>2. CASE StreamNext
    BY <2>2, SourceKeeps, RelayKeeps, WatchKeeps, LogKeeps DEF StreamNext, HandlerStep
  <2>3. CASE kind # "unary" /\ OtherWriter /\ UNCHANGED streamVars
    BY <2>3, WriterKeeps
  <2>4. CASE UNCHANGED vars
    <3>1. UNCHANGED <<log, streamVars>>
      BY <2>4 DEF vars
    <3>2. StreamTypes' /\ Slots'
      BY <3>1, Zenon DEF StreamInv, StreamTypes, Slots, streamVars
    <3>3. Control'
      BY <3>1, Zenon DEF StreamInv, Control, streamVars
    <3>4. Delivery'
      BY <3>1, Zenon DEF StreamInv, Delivery, Ended, Complete, Cut, Pipe, streamVars
    <3> QED  BY <3>2, <3>3, <3>4, Zenon DEF StreamInv
  <2> QED
    BY <2>1, <2>2, <2>3, <2>4 DEF Next
<1> QED
  BY <1>1, <1>2, PTL DEF Spec

\* What Watch and PodLog have sent is the beginning of what the API server
\* reported and can be represented, for every history of the object, and a
\* client is told "watch closed" only once it has all of it.
THEOREM AlwaysEventsInOrder == Spec => []EventsInOrder
<1>1. StreamInv => EventsInOrder
  <2> SUFFICES ASSUME StreamInv
               PROVE  EventsInOrder
    OBVIOUS
  <2>0. StreamTypes /\ Slots /\ Control /\ Delivery
    BY DEF StreamInv
  <2>1. PICK rest \in Seq(Events) : due = Then(sent, rest)
    BY <2>0, SentIsPrefix DEF Delivery, Ended
  <2>2. sent \in Seq(Events)
    BY <2>0 DEF StreamTypes
  <2>3. Len(sent) \in 0..Len(due) /\ sent = SubSeq(due, 1, Len(sent))
    BY <2>1, <2>2, ConcatProperties DEF Then
  <2>4. ctxDone \in BOOLEAN
    BY <2>0 DEF StreamTypes
  <2>5. kind = "Watch" /\ outcome = "Unavailable" /\ relay # "panicked" /\ ctxDone = FALSE =>
           sent = due
    BY <2>0 DEF Delivery, Ended, Control
  <2> QED
    BY <2>3, <2>4, <2>5, Zenon DEF EventsInOrder
<1> QED
  BY <1>1, StreamAlwaysInv, PTL

\* A stream that ends without an error has told its client everything, or the
\* client or the server has gone.
THEOREM AlwaysEndsHonestly == Spec => []EndsHonestly
<1>1. StreamInv => EndsHonestly
  BY DEF StreamInv, Delivery, Ended, Control, EndsHonestly
<1> QED
  BY <1>1, StreamAlwaysInv, PTL
=============================================================================
