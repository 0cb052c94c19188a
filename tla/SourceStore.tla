----------------------------- MODULE SourceStore -----------------------------
(***************************************************************************)
(* sessionapi: the URL of the accepted configuration is kept in a file, so *)
(* that a restarted process knows it.  A desktop manager has its store     *)
(* from the beginning; a mobile shell attaches it later, while a client    *)
(* may configure already.  Saving writes a temporary file and renames it.  *)
(*                                                                         *)
(* An action is one critical section under session.mu or one call on the   *)
(* file system, which may fail; Configure keeps session.mu over the calls  *)
(* of its save.  The process may crash between any two of them.  What a    *)
(* Configure loads and validates before is in module Session.              *)
(***************************************************************************)
CONSTANT Urls \* sources that are URLs

Inline == "inline" \* a source without a URL
Absent == "absent"

\* A URL is neither of these.
ASSUME UrlsAssumption == Inline \notin Urls /\ Absent \notin Urls

VARIABLES
    mobile,     \* is the store attached later?
    disk,       \* the saved URL, or "absent"
    temporary,  \* is a temporary file there?
    manager,    \* attached, and what the session knows of its source
    attaching,  \* AttachSourceStore: pc and what it has loaded
    configuring, \* Configure: the step under session.mu, and its source
    storable,   \* sources that may be on the disk: the last one saved and accepted, and
                \* those of Configures that failed or crashed after it
    accepted    \* the last source accepted by this process

storeVars == <<mobile, disk, temporary, manager, attaching, configuring, storable, accepted>>

NotAttaching == [pc |-> "no", loaded |-> Absent]
NotConfiguring == [pc |-> "no", source |-> Absent]
Stored(source) == IF source = Inline THEN Absent ELSE source

\* What NewManager makes of the file: without a store, or when it cannot be read, nothing.
NewManager(file) ==
    {[attached |-> ~mobile, configured |-> FALSE, source |-> Absent, error |-> ~mobile]}
    \cup {[attached |-> ~mobile, configured |-> FALSE, source |-> IF mobile THEN Absent ELSE file, error |-> FALSE]}

StoreInit ==
    /\ mobile \in BOOLEAN /\ disk = Absent /\ temporary = FALSE
    /\ manager \in NewManager(disk)
    /\ attaching = NotAttaching /\ configuring = NotConfiguring
    /\ storable = {Absent} /\ accepted = Absent

Unlocked == configuring.pc = "no"

-----------------------------------------------------------------------------
(* AttachSourceStore *)

AttachSourceStore ==
    /\ Unlocked /\ ~manager.attached
    /\ manager' = [manager EXCEPT !.attached = TRUE] /\ attaching' = [NotAttaching EXCEPT !.pc = "load"]
    /\ UNCHANGED <<mobile, disk, temporary, configuring, storable, accepted>>

\* Outside of session.mu.
Load ==
    /\ attaching.pc = "load"
    /\ attaching' \in {[pc |-> "apply", loaded |-> disk], [pc |-> "failed", loaded |-> Absent]}
    /\ UNCHANGED <<mobile, disk, temporary, manager, configuring, storable, accepted>>

LoadedAnyway(url) == url # Absent \* fault: a Configure may have been accepted meanwhile
LoadedWanted(url) == ~manager.configured /\ manager.source = Absent /\ url # Absent

Apply ==
    /\ Unlocked /\ attaching.pc \in {"apply", "failed"} /\ attaching' = NotAttaching
    /\ manager' = IF attaching.pc = "failed" THEN [manager EXCEPT !.error = TRUE]
                  ELSE IF LoadedWanted(attaching.loaded)
                       THEN [manager EXCEPT !.source = attaching.loaded, !.error = FALSE]
                       ELSE manager
    /\ UNCHANGED <<mobile, disk, temporary, configuring, storable, accepted>>

-----------------------------------------------------------------------------
(* Configure from validateConfigureBeforeAccept on *)

Accept(source) ==
    /\ Unlocked
    /\ configuring' = [pc |-> IF ~manager.attached THEN "commit" ELSE IF source = Inline THEN "clear" ELSE "write",
                       source |-> source]
    /\ UNCHANGED <<mobile, disk, temporary, manager, attaching, storable, accepted>>

Go(pc) == configuring' = [configuring EXCEPT !.pc = pc]
\* A call fails, or the path is no real directory or no regular file: so does the Configure.
Refused == configuring' = NotConfiguring

\* The checks of the path, and create, chmod, write, sync and close of the temporary file.
\* Whatever fails, the temporary file is removed.
Write ==
    /\ configuring.pc = "write"
    /\ \/ temporary' = TRUE /\ Go("replace")
       \/ Refused /\ UNCHANGED temporary
    /\ UNCHANGED <<mobile, disk, manager, attaching, storable, accepted>>

\* replaceSourceFile renames.
ReplaceSourceFile ==
    /\ configuring.pc = "replace" /\ temporary' = FALSE
    /\ \/ disk' = configuring.source /\ Go("restrict")
       \/ Refused /\ UNCHANGED disk
    /\ UNCHANGED <<mobile, manager, attaching, storable, accepted>>

\* The chmod at the end: when it fails, so does the Configure, and the file is replaced.
Restrict ==
    /\ configuring.pc = "restrict"
    /\ \/ Go("commit") /\ UNCHANGED storable
       \/ Refused /\ storable' = storable \cup {configuring.source}
    /\ UNCHANGED <<mobile, disk, temporary, manager, attaching, accepted>>

Clear ==
    /\ configuring.pc = "clear"
    /\ \/ disk' = Absent /\ Go("commit")
       \/ Refused /\ UNCHANGED disk
    /\ UNCHANGED <<mobile, temporary, manager, attaching, storable, accepted>>

Commit ==
    LET source == configuring.source IN
    /\ configuring.pc = "commit" /\ configuring' = NotConfiguring
    /\ manager' = [manager EXCEPT !.configured = TRUE, !.source = source, !.error = FALSE]
    /\ accepted' = source /\ storable' = IF manager.attached THEN {Stored(source)} ELSE storable
    /\ UNCHANGED <<mobile, disk, temporary, attaching>>

-----------------------------------------------------------------------------
\* The process ends at any step, and another one begins.
Restart ==
    /\ manager' \in NewManager(disk) /\ attaching' = NotAttaching /\ configuring' = NotConfiguring
    /\ storable' = storable \cup (IF Unlocked THEN {} ELSE {Stored(configuring.source)})
    /\ accepted' = Absent /\ UNCHANGED <<mobile, disk, temporary>>

StoreNext ==
    \/ AttachSourceStore \/ Load \/ Apply \/ \E source \in Urls \cup {Inline} : Accept(source)
    \/ Write \/ ReplaceSourceFile \/ Restrict \/ Clear \/ Commit \/ Restart

-----------------------------------------------------------------------------
\* AttachSourceStore, Save and NewManager: a source that was accepted is replaced by
\* nothing but the next one that is accepted, also not by an older URL that is being loaded;
\* and between Configures the file holds, whole, the last source that was accepted with a
\* store, or that of a Configure which failed or crashed after replacing it.
SourceExact ==
    /\ manager.configured => manager.source = accepted
    /\ Unlocked => disk \in storable
    /\ ~manager.configured => manager.source \in storable \cup {Absent}
=============================================================================
