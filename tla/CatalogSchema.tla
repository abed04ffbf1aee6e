--------------------------- MODULE CatalogSchema ---------------------------
(* Opening the catalog (Catalog::init in rf-catalog/src/lib.rs): the schema *)
(* is created statement by statement, each committed on its own, when the   *)
(* user_version read before is below 1; the version is stamped last.  The   *)
(* application panics when init fails.  Instances of it may be started at   *)
(* the same time on one database file (nothing prevents a second one), and  *)
(* any of them may be killed between two statements.  Statements that fail  *)
(* for other reasons (a full disk, a locked file), which end a launch in    *)
(* the same way, are left out.                                              *)
EXTENDS Integers

CONSTANTS Instance,   \* the launches of the application
          MaxKills    \* bound of the model: instances killed

\* missions, sensors, detections, idx_det_mission_t, in the order they are created.
Statements == 4

VARIABLES created,    \* schema objects in the file: the first `created` of them
          userVersion,
          opening,    \* what each instance does; the statement it is at
          kills,      \* instances killed so far
          cut,        \* history: an instance was killed while creating the schema
          creators    \* history: the instances that found version 0

schemaVars == <<created, userVersion, opening, kills, cut, creators>>

SchemaInit ==
  /\ created = 0 /\ userVersion = 0
  /\ opening = [i \in Instance |-> [step |-> "down", at |-> 0]]
  /\ kills = 0 /\ cut = FALSE /\ creators = {}

Go(i, step, at) == opening' = [opening EXCEPT ![i] = [step |-> step, at |-> at]]

Launch(i) ==
  /\ opening[i].step = "down"
  /\ Go(i, "check", 0)
  /\ UNCHANGED <<created, userVersion, kills, cut, creators>>

\* The version decides; whether tables exist is not looked at.
CheckVersion(i) ==
  /\ opening[i].step = "check"
  /\ IF userVersion < 1
     THEN Go(i, "create", 1) /\ creators' = creators \cup {i}
     ELSE Go(i, "up", 0) /\ UNCHANGED creators
  /\ UNCHANGED <<created, userVersion, kills, cut>>

\* CREATE fails if the object exists; the batch ends there and the launch with it.
CreateNextUnstamped(i) ==
  /\ opening[i].step = "create"
  /\ IF created >= opening[i].at
     THEN Go(i, "failed", 0) /\ UNCHANGED created
     ELSE /\ created' = opening[i].at
          /\ IF opening[i].at = Statements THEN Go(i, "up", 0)
             ELSE Go(i, "create", opening[i].at + 1)
  /\ UNCHANGED <<userVersion, kills, cut, creators>>
CreateNext(i) ==
  /\ opening[i].step = "create"
  /\ IF created >= opening[i].at
     THEN Go(i, "failed", 0) /\ UNCHANGED created
     ELSE /\ created' = opening[i].at
          /\ IF opening[i].at = Statements THEN Go(i, "stamp", 0)
             ELSE Go(i, "create", opening[i].at + 1)
  /\ UNCHANGED <<userVersion, kills, cut, creators>>

StampNothing(i) ==
  /\ opening[i].step = "stamp"
  /\ Go(i, "up", 0)
  /\ UNCHANGED <<created, userVersion, kills, cut, creators>>
Stamp(i) ==
  /\ opening[i].step = "stamp"
  /\ userVersion' = 1
  /\ Go(i, "up", 0)
  /\ UNCHANGED <<created, kills, cut, creators>>

\* The process ends, by a kill or because the user closes it, or after a panic;
\* the user may launch it again.
Kill(i) ==
  /\ opening[i].step # "down" /\ kills < MaxKills
  /\ kills' = kills + 1
  /\ cut' = (cut \/ opening[i].step \in {"create", "stamp"})
  /\ Go(i, "down", 0)
  /\ UNCHANGED <<created, userVersion, creators>>

Proceed(i) == CheckVersion(i) \/ CreateNext(i) \/ Stamp(i)

SchemaNext == \E i \in Instance : Launch(i) \/ Proceed(i) \/ Kill(i)

\* A launched process runs; that it is launched, or killed, is up to the user.
SchemaFairness == \A i \in Instance : WF_schemaVars(Proceed(i))

SchemaSpec == SchemaInit /\ [][SchemaNext]_schemaVars /\ SchemaFairness

-----------------------------------------------------------------------------
(* Properties *)

\* Whoever gets past init works on a complete schema, also while another instance
\* is still creating it.  Where the file can be read and written, a launch fails only
\* because another one created the schema at the same time, or because one was
\* killed while it did; never after a clean exit.
LaunchOutcome ==
  /\ (userVersion = 1 \/ \E i \in Instance : opening[i].step = "up") => created = Statements
  /\ \A i \in Instance : opening[i].step = "failed" => cut \/ creators # {i}

\* Of the launches that race for a new file, one completes the schema, unless one
\* is killed half-way (then the file never opens again).
SchemaGetsDone ==
  (\E i \in Instance : opening[i].step = "create") ~> (cut \/ userVersion = 1)
=============================================================================
