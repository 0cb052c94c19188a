-------------------------- MODULE TunnelFlowsProofs --------------------------
(***************************************************************************)
(* Proofs about TunnelFlows, for any flows and any number of attempts: no  *)
(* flow outlives its attempt, and attempts never overlap.                  *)
(***************************************************************************)
EXTENDS TunnelFlows, TLAPS

\* The tuples of variables that frame conditions name.
USE DEF engineVars, routerVars, ownerVars, relayVars, flowVars

\* The flow owners start empty.
LEMMA InitInv == Init => FlowInv
<1> SUFFICES ASSUME Init PROVE FlowInv
  OBVIOUS
<1>1. TypeOK
  <2>1. 0 \in 0..MaxAttempts
    BY AttemptsAssumption
  <2>2. gen \in [Flows -> 0..MaxAttempts]
    BY <2>1 DEF Init
  <2>3. /\ pc \in [Flows -> {"none", "routed", "register", "dial", "track", "relay", "late", "end"}]
        /\ tcpContext \in [Attempts -> {"none", "live", "canceled"}]
    BY DEF Init
  <2> QED BY <2>1, <2>2, <2>3 DEF Init, TypeOK
<1>2. FlowPlaces
  BY DEF Init, FlowPlaces
<1>3. EnginePlaces
  BY AttemptsAssumption DEF Init, EnginePlaces
<1>4. Accounted /\ NoGhost
  BY DEF Init, Accounted, NoGhost
<1> QED BY <1>1, <1>2, <1>3, <1>4 DEF FlowInv

\* Route of a flow preserves the invariant.
LEMMA RouteInv == ASSUME FlowInv, NEW f \in Flows, Route(f) PROVE FlowInv'
<1>1. TypeOK'
  BY AttemptsAssumption DEF FlowInv, TypeOK, FlowPlaces, EnginePlaces, Attempts, Route, FlowFrame, Goto
<1>2. FlowPlaces'
  BY AttemptsAssumption DEF FlowInv, TypeOK, FlowPlaces, EnginePlaces, Accounted, NoGhost, Attempts, Route, FlowFrame, Goto
<1>3. EnginePlaces'
  BY AttemptsAssumption DEF FlowInv, TypeOK, FlowPlaces, EnginePlaces, Accounted, NoGhost, Attempts, Route, FlowFrame, Goto
<1>4. Accounted' /\ NoGhost'
  BY DEF FlowInv, TypeOK, FlowPlaces, Accounted, NoGhost, Route, FlowFrame, Goto
<1> QED BY <1>1, <1>2, <1>3, <1>4 DEF FlowInv

\* HandleUDP of a flow preserves the invariant.
LEMMA HandleUDPInv == ASSUME FlowInv, NEW f \in Flows, HandleUDP(f) PROVE FlowInv'
<1>1. TypeOK'
  BY AttemptsAssumption DEF FlowInv, TypeOK, FlowPlaces, EnginePlaces, Attempts, HandleUDP, Admit, FlowFrame, Goto
<1>2. FlowPlaces'
  BY AttemptsAssumption DEF FlowInv, TypeOK, FlowPlaces, EnginePlaces, Accounted, NoGhost, Attempts, HandleUDP, Admit, FlowFrame, Goto
<1>3. EnginePlaces'
  BY AttemptsAssumption DEF FlowInv, TypeOK, FlowPlaces, EnginePlaces, Accounted, NoGhost, Attempts, HandleUDP, Admit, FlowFrame, Goto
<1>4. Accounted' /\ NoGhost'
  BY DEF FlowInv, TypeOK, FlowPlaces, Accounted, NoGhost, HandleUDP, Admit, FlowFrame, Goto
<1> QED BY <1>1, <1>2, <1>3, <1>4 DEF FlowInv

\* DispatchUDP of a flow preserves the invariant.
LEMMA DispatchUDPInv == ASSUME FlowInv, NEW f \in Flows, DispatchUDP(f) PROVE FlowInv'
<1>1. TypeOK'
  BY AttemptsAssumption DEF FlowInv, TypeOK, FlowPlaces, EnginePlaces, Attempts, DispatchUDP, FlowFrame, Goto
<1>2. FlowPlaces'
  BY AttemptsAssumption DEF FlowInv, TypeOK, FlowPlaces, EnginePlaces, Accounted, NoGhost, Attempts, DispatchUDP, FlowFrame, Goto
<1>3. EnginePlaces'
  BY AttemptsAssumption DEF FlowInv, TypeOK, FlowPlaces, EnginePlaces, Accounted, NoGhost, Attempts, DispatchUDP, FlowFrame, Goto
<1>4. Accounted' /\ NoGhost'
  BY DEF FlowInv, TypeOK, FlowPlaces, Accounted, NoGhost, DispatchUDP, FlowFrame, Goto
<1> QED BY <1>1, <1>2, <1>3, <1>4 DEF FlowInv

\* BeginDial of a flow preserves the invariant.
LEMMA BeginDialInv == ASSUME FlowInv, NEW f \in Flows, BeginDial(f) PROVE FlowInv'
<1>1. TypeOK'
  BY AttemptsAssumption DEF FlowInv, TypeOK, FlowPlaces, EnginePlaces, Attempts, BeginDial, FlowFrame, Goto
<1>2. FlowPlaces'
  BY AttemptsAssumption DEF FlowInv, TypeOK, FlowPlaces, EnginePlaces, Accounted, NoGhost, Attempts, BeginDial, FlowFrame, Goto
<1>3. EnginePlaces'
  BY AttemptsAssumption DEF FlowInv, TypeOK, FlowPlaces, EnginePlaces, Accounted, NoGhost, Attempts, BeginDial, FlowFrame, Goto
<1>4. Accounted' /\ NoGhost'
  BY DEF FlowInv, TypeOK, FlowPlaces, Accounted, NoGhost, BeginDial, FlowFrame, Goto
<1> QED BY <1>1, <1>2, <1>3, <1>4 DEF FlowInv

\* PendingTCPContext of a flow preserves the invariant.
LEMMA PendingTCPContextInv == ASSUME FlowInv, NEW f \in Flows, PendingTCPContext(f) PROVE FlowInv'
<1>1. TypeOK'
  BY AttemptsAssumption DEF FlowInv, TypeOK, FlowPlaces, EnginePlaces, Attempts, PendingTCPContext, Registered, FlowFrame, Goto
<1>2. FlowPlaces'
  BY AttemptsAssumption DEF FlowInv, TypeOK, FlowPlaces, EnginePlaces, Accounted, NoGhost, Attempts, PendingTCPContext, Registered, FlowFrame, Goto
<1>3. EnginePlaces'
  BY AttemptsAssumption DEF FlowInv, TypeOK, FlowPlaces, EnginePlaces, Accounted, NoGhost, Attempts, PendingTCPContext, Registered, FlowFrame, Goto
<1>4. Accounted' /\ NoGhost'
  BY DEF FlowInv, TypeOK, FlowPlaces, Accounted, NoGhost, PendingTCPContext, Registered, FlowFrame, Goto
<1> QED BY <1>1, <1>2, <1>3, <1>4 DEF FlowInv

\* Track of a flow preserves the invariant.
LEMMA TrackInv == ASSUME FlowInv, NEW f \in Flows, Track(f) PROVE FlowInv'
<1>1. TypeOK'
  BY AttemptsAssumption DEF FlowInv, TypeOK, FlowPlaces, EnginePlaces, Attempts, Track, Trackable, FlowFrame, Goto
<1>2. FlowPlaces'
  BY AttemptsAssumption DEF FlowInv, TypeOK, FlowPlaces, EnginePlaces, Accounted, NoGhost, Attempts, Track, Trackable, FlowFrame, Goto
<1>3. EnginePlaces'
  BY AttemptsAssumption DEF FlowInv, TypeOK, FlowPlaces, EnginePlaces, Accounted, NoGhost, Attempts, Track, Trackable, FlowFrame, Goto
<1>4. Accounted' /\ NoGhost'
  BY DEF FlowInv, TypeOK, FlowPlaces, Accounted, NoGhost, Track, Trackable, FlowFrame, Goto
<1> QED BY <1>1, <1>2, <1>3, <1>4 DEF FlowInv

\* CloseLate of a flow preserves the invariant.
LEMMA CloseLateInv == ASSUME FlowInv, NEW f \in Flows, CloseLate(f) PROVE FlowInv'
<1>1. TypeOK'
  BY AttemptsAssumption DEF FlowInv, TypeOK, FlowPlaces, EnginePlaces, Attempts, CloseLate, Close, ReleaseFailed, FlowFrame, Goto
<1>2. FlowPlaces'
  BY AttemptsAssumption DEF FlowInv, TypeOK, FlowPlaces, EnginePlaces, Accounted, NoGhost, Attempts, CloseLate, Close, ReleaseFailed, FlowFrame, Goto
<1>3. EnginePlaces'
  BY AttemptsAssumption DEF FlowInv, TypeOK, FlowPlaces, EnginePlaces, Accounted, NoGhost, Attempts, CloseLate, Close, ReleaseFailed, FlowFrame, Goto
<1>4. Accounted' /\ NoGhost'
  BY DEF FlowInv, TypeOK, FlowPlaces, Accounted, NoGhost, CloseLate, Close, ReleaseFailed, FlowFrame, Goto
<1> QED BY <1>1, <1>2, <1>3, <1>4 DEF FlowInv

\* HandUDPIn of a flow preserves the invariant.
LEMMA HandUDPInInv == ASSUME FlowInv, NEW f \in Flows, HandUDPIn(f) PROVE FlowInv'
<1>1. TypeOK'
  BY AttemptsAssumption DEF FlowInv, TypeOK, FlowPlaces, EnginePlaces, Attempts, HandUDPIn, FlowFrame, Goto
<1>2. FlowPlaces'
  BY AttemptsAssumption DEF FlowInv, TypeOK, FlowPlaces, EnginePlaces, Accounted, NoGhost, Attempts, HandUDPIn, FlowFrame, Goto
<1>3. EnginePlaces'
  BY AttemptsAssumption DEF FlowInv, TypeOK, FlowPlaces, EnginePlaces, Accounted, NoGhost, Attempts, HandUDPIn, FlowFrame, Goto
<1>4. Accounted' /\ NoGhost'
  BY DEF FlowInv, TypeOK, FlowPlaces, Accounted, NoGhost, HandUDPIn, FlowFrame, Goto
<1> QED BY <1>1, <1>2, <1>3, <1>4 DEF FlowInv

\* HandUDPRetired of a flow preserves the invariant.
LEMMA HandUDPRetiredInv == ASSUME FlowInv, NEW f \in Flows, HandUDPRetired(f) PROVE FlowInv'
<1>1. TypeOK'
  BY AttemptsAssumption DEF FlowInv, TypeOK, FlowPlaces, EnginePlaces, Attempts, HandUDPRetired, Close, ReleaseFailed, Retired, FlowFrame, Goto
<1>2. FlowPlaces'
  BY AttemptsAssumption DEF FlowInv, TypeOK, FlowPlaces, EnginePlaces, Accounted, NoGhost, Attempts, HandUDPRetired, Close, ReleaseFailed, Retired, FlowFrame, Goto
<1>3. EnginePlaces'
  BY AttemptsAssumption DEF FlowInv, TypeOK, FlowPlaces, EnginePlaces, Accounted, NoGhost, Attempts, HandUDPRetired, Close, ReleaseFailed, Retired, FlowFrame, Goto
<1>4. Accounted' /\ NoGhost'
  BY DEF FlowInv, TypeOK, FlowPlaces, Accounted, NoGhost, HandUDPRetired, Close, ReleaseFailed, Retired, FlowFrame, Goto
<1> QED BY <1>1, <1>2, <1>3, <1>4 DEF FlowInv

\* EndDial of a flow preserves the invariant.
LEMMA EndDialInv == ASSUME FlowInv, NEW f \in Flows, EndDial(f) PROVE FlowInv'
<1>1. TypeOK'
  BY AttemptsAssumption DEF FlowInv, TypeOK, FlowPlaces, EnginePlaces, Attempts, EndDial, FlowFrame, Goto
<1>2. FlowPlaces'
  BY AttemptsAssumption DEF FlowInv, TypeOK, FlowPlaces, EnginePlaces, Accounted, NoGhost, Attempts, EndDial, FlowFrame, Goto
<1>3. EnginePlaces'
  BY AttemptsAssumption DEF FlowInv, TypeOK, FlowPlaces, EnginePlaces, Accounted, NoGhost, Attempts, EndDial, FlowFrame, Goto
<1>4. Accounted' /\ NoGhost'
  BY DEF FlowInv, TypeOK, FlowPlaces, Accounted, NoGhost, EndDial, FlowFrame, Goto
<1> QED BY <1>1, <1>2, <1>3, <1>4 DEF FlowInv

\* DialContext of a flow preserves the invariant.
LEMMA DialContextInv == ASSUME FlowInv, NEW f \in Flows, DialContext(f) PROVE FlowInv'
<1>1. TypeOK'
  BY AttemptsAssumption DEF FlowInv, TypeOK, FlowPlaces, EnginePlaces, Attempts, DialContext, FlowFrame, Goto
<1>2. FlowPlaces'
  BY AttemptsAssumption DEF FlowInv, TypeOK, FlowPlaces, EnginePlaces, Accounted, NoGhost, Attempts, DialContext, FlowFrame, Goto
<1>3. EnginePlaces'
  BY AttemptsAssumption DEF FlowInv, TypeOK, FlowPlaces, EnginePlaces, Accounted, NoGhost, Attempts, DialContext, FlowFrame, Goto
<1>4. Accounted' /\ NoGhost'
  BY DEF FlowInv, TypeOK, FlowPlaces, Accounted, NoGhost, DialContext, FlowFrame, Goto
<1> QED BY <1>1, <1>2, <1>3, <1>4 DEF FlowInv

\* FlowEnds of a flow preserves the invariant.
LEMMA FlowEndsInv == ASSUME FlowInv, NEW f \in Flows, FlowEnds(f) PROVE FlowInv'
<1>1. TypeOK'
  BY AttemptsAssumption DEF FlowInv, TypeOK, FlowPlaces, EnginePlaces, Attempts, FlowEnds, Close, ReleaseFailed, FlowFrame, Goto
<1>2. FlowPlaces'
  BY AttemptsAssumption DEF FlowInv, TypeOK, FlowPlaces, EnginePlaces, Accounted, NoGhost, Attempts, FlowEnds, Close, ReleaseFailed, FlowFrame, Goto
<1>3. EnginePlaces'
  BY AttemptsAssumption DEF FlowInv, TypeOK, FlowPlaces, EnginePlaces, Accounted, NoGhost, Attempts, FlowEnds, Close, ReleaseFailed, FlowFrame, Goto
<1>4. Accounted' /\ NoGhost'
  BY DEF FlowInv, TypeOK, FlowPlaces, Accounted, NoGhost, FlowEnds, Close, ReleaseFailed, FlowFrame, Goto
<1> QED BY <1>1, <1>2, <1>3, <1>4 DEF FlowInv

\* Attach of the engine preserves the invariant.
LEMMA AttachInv == ASSUME FlowInv, Attach PROVE FlowInv'
<1>1. TypeOK'
  BY AttemptsAssumption DEF FlowInv, TypeOK, FlowPlaces, EnginePlaces, Attempts, Attach, OpTo, OpFrame
<1>2. FlowPlaces'
  BY AttemptsAssumption DEF FlowInv, TypeOK, FlowPlaces, EnginePlaces, Accounted, NoGhost, Attempts, Attach, OpTo, OpFrame
<1>3. EnginePlaces'
  BY AttemptsAssumption DEF FlowInv, TypeOK, FlowPlaces, EnginePlaces, Accounted, NoGhost, Attempts, Attach, OpTo, OpFrame
<1>4. Accounted' /\ NoGhost'
  BY DEF FlowInv, TypeOK, FlowPlaces, Accounted, NoGhost, Attach, OpTo, OpFrame
<1> QED BY <1>1, <1>2, <1>3, <1>4 DEF FlowInv

\* Detach of the engine preserves the invariant.
LEMMA DetachInv == ASSUME FlowInv, Detach PROVE FlowInv'
<1>1. TypeOK'
  BY AttemptsAssumption DEF FlowInv, TypeOK, FlowPlaces, EnginePlaces, Attempts, Detach, OpTo, OpFrame
<1>2. FlowPlaces'
  BY AttemptsAssumption DEF FlowInv, TypeOK, FlowPlaces, EnginePlaces, Accounted, NoGhost, Attempts, Detach, OpTo, OpFrame
<1>3. EnginePlaces'
  BY AttemptsAssumption DEF FlowInv, TypeOK, FlowPlaces, EnginePlaces, Accounted, NoGhost, Attempts, Detach, OpTo, OpFrame
<1>4. Accounted' /\ NoGhost'
  BY DEF FlowInv, TypeOK, FlowPlaces, Accounted, NoGhost, Detach, OpTo, OpFrame
<1> QED BY <1>1, <1>2, <1>3, <1>4 DEF FlowInv

\* Stop of the engine preserves the invariant.
LEMMA StopInv == ASSUME FlowInv, Stop PROVE FlowInv'
<1>1. TypeOK'
  BY AttemptsAssumption DEF FlowInv, TypeOK, FlowPlaces, EnginePlaces, Attempts, Stop, OpTo, OpFrame
<1>2. FlowPlaces'
  BY AttemptsAssumption DEF FlowInv, TypeOK, FlowPlaces, EnginePlaces, Accounted, NoGhost, Attempts, Stop, OpTo, OpFrame
<1>3. EnginePlaces'
  BY AttemptsAssumption DEF FlowInv, TypeOK, FlowPlaces, EnginePlaces, Accounted, NoGhost, Attempts, Stop, OpTo, OpFrame
<1>4. Accounted' /\ NoGhost'
  BY DEF FlowInv, TypeOK, FlowPlaces, Accounted, NoGhost, Stop, OpTo, OpFrame
<1> QED BY <1>1, <1>2, <1>3, <1>4 DEF FlowInv

\* DetachSeal of the engine preserves the invariant.
LEMMA DetachSealInv == ASSUME FlowInv, DetachSeal PROVE FlowInv'
<1>1. TypeOK'
  BY AttemptsAssumption DEF FlowInv, TypeOK, FlowPlaces, EnginePlaces, Attempts, DetachSeal, Seal, OpTo, OpFrame
<1>2. FlowPlaces'
  BY AttemptsAssumption DEF FlowInv, TypeOK, FlowPlaces, EnginePlaces, Accounted, NoGhost, Attempts, DetachSeal, Seal, OpTo, OpFrame
<1>3. EnginePlaces'
  BY AttemptsAssumption DEF FlowInv, TypeOK, FlowPlaces, EnginePlaces, Accounted, NoGhost, Attempts, DetachSeal, Seal, OpTo, OpFrame
<1>4. Accounted' /\ NoGhost'
  BY DEF FlowInv, TypeOK, FlowPlaces, Accounted, NoGhost, DetachSeal, Seal, OpTo, OpFrame
<1> QED BY <1>1, <1>2, <1>3, <1>4 DEF FlowInv

\* DetachClosed of the engine preserves the invariant.
LEMMA DetachClosedInv == ASSUME FlowInv, DetachClosed PROVE FlowInv'
<1>1. TypeOK'
  BY AttemptsAssumption DEF FlowInv, TypeOK, FlowPlaces, EnginePlaces, Attempts, DetachClosed, OpTo, OpFrame
<1>2. FlowPlaces'
  BY AttemptsAssumption DEF FlowInv, TypeOK, FlowPlaces, EnginePlaces, Accounted, NoGhost, Attempts, DetachClosed, OpTo, OpFrame
<1>3. EnginePlaces'
  BY AttemptsAssumption DEF FlowInv, TypeOK, FlowPlaces, EnginePlaces, Accounted, NoGhost, Attempts, DetachClosed, OpTo, OpFrame
<1>4. Accounted' /\ NoGhost'
  BY DEF FlowInv, TypeOK, FlowPlaces, Accounted, NoGhost, DetachClosed, OpTo, OpFrame
<1> QED BY <1>1, <1>2, <1>3, <1>4 DEF FlowInv

\* DetachWait of the engine preserves the invariant.
LEMMA DetachWaitInv == ASSUME FlowInv, DetachWait PROVE FlowInv'
<1>1. TypeOK'
  BY AttemptsAssumption DEF FlowInv, TypeOK, FlowPlaces, EnginePlaces, Attempts, DetachWait, Settled, Residual, OpTo, OpFrame
<1>2. FlowPlaces'
  BY AttemptsAssumption DEF FlowInv, TypeOK, FlowPlaces, EnginePlaces, Accounted, NoGhost, Attempts, DetachWait, Settled, Residual, OpTo, OpFrame
<1>3. EnginePlaces'
  BY AttemptsAssumption DEF FlowInv, TypeOK, FlowPlaces, EnginePlaces, Accounted, NoGhost, Attempts, DetachWait, Settled, Residual, OpTo, OpFrame
<1>4. Accounted' /\ NoGhost'
  BY DEF FlowInv, TypeOK, FlowPlaces, Accounted, NoGhost, DetachWait, Settled, Residual, OpTo, OpFrame
<1> QED BY <1>1, <1>2, <1>3, <1>4 DEF FlowInv

\* StopSeal of the engine preserves the invariant.
LEMMA StopSealInv == ASSUME FlowInv, StopSeal PROVE FlowInv'
<1>1. TypeOK'
  BY AttemptsAssumption DEF FlowInv, TypeOK, FlowPlaces, EnginePlaces, Attempts, StopSeal, Seal, OpTo, OpFrame
<1>2. FlowPlaces'
  BY AttemptsAssumption DEF FlowInv, TypeOK, FlowPlaces, EnginePlaces, Accounted, NoGhost, Attempts, StopSeal, Seal, OpTo, OpFrame
<1>3. EnginePlaces'
  BY AttemptsAssumption DEF FlowInv, TypeOK, FlowPlaces, EnginePlaces, Accounted, NoGhost, Attempts, StopSeal, Seal, OpTo, OpFrame
<1>4. Accounted' /\ NoGhost'
  BY DEF FlowInv, TypeOK, FlowPlaces, Accounted, NoGhost, StopSeal, Seal, OpTo, OpFrame
<1> QED BY <1>1, <1>2, <1>3, <1>4 DEF FlowInv

\* StopClosed of the engine preserves the invariant.
LEMMA StopClosedInv == ASSUME FlowInv, StopClosed PROVE FlowInv'
<1>1. TypeOK'
  BY AttemptsAssumption DEF FlowInv, TypeOK, FlowPlaces, EnginePlaces, Attempts, StopClosed, OpTo, OpFrame
<1>2. FlowPlaces'
  BY AttemptsAssumption DEF FlowInv, TypeOK, FlowPlaces, EnginePlaces, Accounted, NoGhost, Attempts, StopClosed, OpTo, OpFrame
<1>3. EnginePlaces'
  BY AttemptsAssumption DEF FlowInv, TypeOK, FlowPlaces, EnginePlaces, Accounted, NoGhost, Attempts, StopClosed, OpTo, OpFrame
<1>4. Accounted' /\ NoGhost'
  BY DEF FlowInv, TypeOK, FlowPlaces, Accounted, NoGhost, StopClosed, OpTo, OpFrame
<1> QED BY <1>1, <1>2, <1>3, <1>4 DEF FlowInv

\* StopPlatform of the engine preserves the invariant.
LEMMA StopPlatformInv == ASSUME FlowInv, StopPlatform PROVE FlowInv'
<1>1. TypeOK'
  BY AttemptsAssumption DEF FlowInv, TypeOK, FlowPlaces, EnginePlaces, Attempts, StopPlatform, OpTo, OpFrame
<1>2. FlowPlaces'
  BY AttemptsAssumption DEF FlowInv, TypeOK, FlowPlaces, EnginePlaces, Accounted, NoGhost, Attempts, StopPlatform, OpTo, OpFrame
<1>3. EnginePlaces'
  BY AttemptsAssumption DEF FlowInv, TypeOK, FlowPlaces, EnginePlaces, Accounted, NoGhost, Attempts, StopPlatform, OpTo, OpFrame
<1>4. Accounted' /\ NoGhost'
  BY DEF FlowInv, TypeOK, FlowPlaces, Accounted, NoGhost, StopPlatform, OpTo, OpFrame
<1> QED BY <1>1, <1>2, <1>3, <1>4 DEF FlowInv

\* StopWait of the engine preserves the invariant.
LEMMA StopWaitInv == ASSUME FlowInv, StopWait PROVE FlowInv'
<1>1. TypeOK'
  BY AttemptsAssumption DEF FlowInv, TypeOK, FlowPlaces, EnginePlaces, Attempts, StopWait, Settled, Residual, OpTo, OpFrame
<1>2. FlowPlaces'
  BY AttemptsAssumption DEF FlowInv, TypeOK, FlowPlaces, EnginePlaces, Accounted, NoGhost, Attempts, StopWait, Settled, Residual, OpTo, OpFrame
<1>3. EnginePlaces'
  BY AttemptsAssumption DEF FlowInv, TypeOK, FlowPlaces, EnginePlaces, Accounted, NoGhost, Attempts, StopWait, Settled, Residual, OpTo, OpFrame
<1>4. Accounted' /\ NoGhost'
  BY DEF FlowInv, TypeOK, FlowPlaces, Accounted, NoGhost, StopWait, Settled, Residual, OpTo, OpFrame
<1> QED BY <1>1, <1>2, <1>3, <1>4 DEF FlowInv

\* CloseOne of the engine preserves the invariant.
LEMMA CloseOneInv == ASSUME FlowInv, CloseOne PROVE FlowInv'
<1>1. TypeOK'
  BY AttemptsAssumption DEF FlowInv, TypeOK, FlowPlaces, EnginePlaces, Attempts, CloseOne, Close, ReleaseFailed, OpTo, OpFrame
<1>2. FlowPlaces'
  BY AttemptsAssumption DEF FlowInv, TypeOK, FlowPlaces, EnginePlaces, Accounted, NoGhost, Attempts, CloseOne, Close, ReleaseFailed, OpTo, OpFrame
<1>3. EnginePlaces'
  BY AttemptsAssumption DEF FlowInv, TypeOK, FlowPlaces, EnginePlaces, Accounted, NoGhost, Attempts, CloseOne, Close, ReleaseFailed, OpTo, OpFrame
<1>4. Accounted' /\ NoGhost'
  BY DEF FlowInv, TypeOK, FlowPlaces, Accounted, NoGhost, CloseOne, Close, ReleaseFailed, OpTo, OpFrame
<1> QED BY <1>1, <1>2, <1>3, <1>4 DEF FlowInv

\* The invariant is inductive: what the owner of an attempt accounts for, at every
\* place of a dial and of Detach and Stop.
THEOREM FlowInvariance == Spec => []FlowInv
<1>1. FlowInv /\ [Next]_vars => FlowInv'
  <2> SUFFICES ASSUME FlowInv, [Next]_vars PROVE FlowInv'
    OBVIOUS
  <2>1. CASE Attach
    BY <2>1, AttachInv
  <2>2. CASE Detach
    BY <2>2, DetachInv
  <2>3. CASE Stop
    BY <2>3, StopInv
  <2>4. CASE DetachSeal
    BY <2>4, DetachSealInv
  <2>5. CASE DetachClosed
    BY <2>5, DetachClosedInv
  <2>6. CASE DetachWait
    BY <2>6, DetachWaitInv
  <2>7. CASE StopSeal
    BY <2>7, StopSealInv
  <2>8. CASE StopClosed
    BY <2>8, StopClosedInv
  <2>9. CASE StopPlatform
    BY <2>9, StopPlatformInv
  <2>10. CASE StopWait
    BY <2>10, StopWaitInv
  <2>11. CASE CloseOne
    BY <2>11, CloseOneInv
  <2>12. ASSUME NEW f \in Flows, Route(f) PROVE FlowInv'
    BY <2>12, RouteInv
  <2>13. ASSUME NEW f \in Flows, HandleUDP(f) PROVE FlowInv'
    BY <2>13, HandleUDPInv
  <2>14. ASSUME NEW f \in Flows, DispatchUDP(f) PROVE FlowInv'
    BY <2>14, DispatchUDPInv
  <2>15. ASSUME NEW f \in Flows, BeginDial(f) PROVE FlowInv'
    BY <2>15, BeginDialInv
  <2>16. ASSUME NEW f \in Flows, PendingTCPContext(f) PROVE FlowInv'
    BY <2>16, PendingTCPContextInv
  <2>17. ASSUME NEW f \in Flows, Track(f) PROVE FlowInv'
    BY <2>17, TrackInv
  <2>18. ASSUME NEW f \in Flows, CloseLate(f) PROVE FlowInv'
    BY <2>18, CloseLateInv
  <2>19. ASSUME NEW f \in Flows, HandUDPIn(f) PROVE FlowInv'
    BY <2>19, HandUDPInInv
  <2>20. ASSUME NEW f \in Flows, HandUDPRetired(f) PROVE FlowInv'
    BY <2>20, HandUDPRetiredInv
  <2>21. ASSUME NEW f \in Flows, EndDial(f) PROVE FlowInv'
    BY <2>21, EndDialInv
  <2>22. ASSUME NEW f \in Flows, DialContext(f) PROVE FlowInv'
    BY <2>22, DialContextInv
  <2>23. ASSUME NEW f \in Flows, FlowEnds(f) PROVE FlowInv'
    BY <2>23, FlowEndsInv
  <2>24. CASE UNCHANGED vars
    BY <2>24 DEF FlowInv, TypeOK, FlowPlaces, EnginePlaces, Accounted, NoGhost, vars
  <2> QED
    BY <2>1, <2>2, <2>3, <2>4, <2>5, <2>6, <2>7, <2>8, <2>9, <2>10, <2>11, <2>12, <2>13, <2>14, <2>15, <2>16, <2>17, <2>18, <2>19, <2>20, <2>21, <2>22, <2>23, <2>24 DEF Next, EngineStep, Admission, DialStep
<1> QED BY <1>1, InitInv, PTL DEF Spec

\* When Detach or Stop has reported success, no socket of the attempt exists, and
\* no dial that raced it can bring one back.
THEOREM NoFlowLeft == Spec => []NoFlowOutlivesAttempt
<1>1. FlowInv => NoFlowOutlivesAttempt
  BY DEF FlowInv, FlowPlaces, EnginePlaces, NoFlowOutlivesAttempt
<1> QED BY <1>1, FlowInvariance, PTL

\* Every socket is registered or its dial is pending, and nothing that is gone is
\* registered.
THEOREM ExactBooks == Spec => [](Accounted /\ NoGhost)
<1>1. FlowInv => Accounted /\ NoGhost
  BY DEF FlowInv
<1> QED BY <1>1, FlowInvariance, PTL

\* A new attempt is attached only when nothing of an earlier one is left.
THEOREM AttemptsDisjoint == Spec => CleanAttach
<1>1. ASSUME FlowInv, [Next]_vars, proxy' # proxy, proxy' # 0,
             NEW f \in Flows, f \in pending \cup connections \cup open
      PROVE  gen[f] = proxy'
  <2>1. Attach
    BY <1>1 DEF Next, vars, engineVars, Detach, Stop, EngineStep, DetachSeal, DetachClosed, DetachWait,
       StopSeal, StopClosed, StopPlatform, StopWait, CloseOne, Seal, Admission, DialStep, Route,
       HandleUDP, DispatchUDP, BeginDial, PendingTCPContext, Track, CloseLate, HandUDPIn,
       HandUDPRetired, EndDial, DialContext, FlowEnds, FlowFrame
  <2> QED BY <1>1, <2>1 DEF Attach, FlowInv, FlowPlaces
<1>2. FlowInv /\ [Next]_vars =>
        [proxy' # proxy /\ proxy' # 0
           => \A f \in Flows : f \in pending \cup connections \cup open => gen[f] = proxy']_vars
  BY <1>1
<1> QED BY <1>2, FlowInvariance, PTL DEF Spec, CleanAttach
=============================================================================
