--------------------------- MODULE StatePublisher ---------------------------
(***************************************************************************)
(* mobilebinding: the session manager publishes every change of its state, *)
(* under session.mu and without ever waiting, through a channel of one     *)
(* place to a goroutine that calls the platform's shell, which may take    *)
(* its time.  Changes may be skipped, the last one may not.                *)
(*                                                                         *)
(* A change is its number in the order of publication.                     *)
(***************************************************************************)
EXTENDS Naturals

CONSTANT MaxChanges \* bound: changes published

VARIABLES
    published,   \* the last change, or the one being published
    publishPc,   \* PublishState: "idle", "drain", "again"
    stateChanges, \* the channel: empty or one change
    delivering,  \* the change that the goroutine has taken; 0: it waits
    taken,       \* the last one it took
    shell        \* callbacks are registered

publisherVars == <<published, publishPc, stateChanges, delivering, taken, shell>>

PublisherInit ==
    /\ published = 0 /\ publishPc = "idle" /\ stateChanges = {}
    /\ delivering = 0 /\ taken = 0 /\ shell \in BOOLEAN

\* The first select sends, or finds the channel full.
SkipsWhenFull == "idle" \* fault: the new change is dropped
WhenFull == "drain"
PublishState ==
    /\ publishPc = "idle" /\ published < MaxChanges /\ published' = published + 1
    /\ IF stateChanges = {}
       THEN stateChanges' = {published + 1} /\ UNCHANGED publishPc
       ELSE publishPc' = WhenFull /\ UNCHANGED stateChanges
    /\ UNCHANGED <<delivering, taken, shell>>

\* The second takes the old change out, unless the goroutine just did.
Drain ==
    /\ publishPc = "drain" /\ publishPc' = "again" /\ stateChanges' = {}
    /\ UNCHANGED <<published, delivering, taken, shell>>

\* The third sends, or gives up.
Again ==
    /\ publishPc = "again" /\ publishPc' = "idle"
    /\ stateChanges' = IF stateChanges = {} THEN {published} ELSE stateChanges
    /\ UNCHANGED <<published, delivering, taken, shell>>

\* publishStateChanges: takes a change; calls the shell if there is one.
Take ==
    /\ delivering = 0
    /\ \E change \in stateChanges : taken' = change /\ delivering' = IF shell THEN change ELSE 0
    /\ stateChanges' = {} /\ UNCHANGED <<published, publishPc, shell>>
Delivered ==
    /\ delivering # 0 /\ delivering' = 0
    /\ UNCHANGED <<published, publishPc, stateChanges, taken, shell>>

SetPlatformCallbacks ==
    /\ shell' = ~shell /\ UNCHANGED <<published, publishPc, stateChanges, delivering, taken>>

PublisherNext == PublishState \/ Drain \/ Again \/ Take \/ Delivered \/ SetPlatformCallbacks

-----------------------------------------------------------------------------
\* PublishState: the last change always reaches the goroutine in the end: although none of
\* the three selects waits, the newest change is never the one that is dropped.
LatestTaken == []<>(taken = published)
=============================================================================
