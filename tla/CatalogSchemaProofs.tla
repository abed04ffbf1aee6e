------------------------ MODULE CatalogSchemaProofs ------------------------
(* How a launch can end, for any number of instances and kills. *)
EXTENDS CatalogSchema, TLAPS

Steps == {"down", "check", "create", "stamp", "up", "failed"}

SchemaTypes ==
  /\ created \in 0..Statements /\ userVersion \in {0, 1}
  /\ opening \in [Instance -> [step : Steps, at : 0..Statements]]
  /\ cut \in BOOLEAN /\ creators \subseteq Instance

\* What stands behind the version in the file and behind each step.
StampIsLast ==
  /\ userVersion = 1 => created = Statements
  /\ \A i \in Instance :
       /\ opening[i].step = "create" => opening[i].at \in 1..Statements
       /\ opening[i].step = "stamp" => created = Statements
       /\ opening[i].step = "up" => userVersion = 1

\* The only creator that there has been, and none was cut off: it has stamped
\* the file, or is about to, or its next statement is the next one missing.
SoleCreator(i) ==
  \/ userVersion = 1 /\ opening[i].step \notin {"create", "stamp", "failed"}
  \/ userVersion = 0 /\ opening[i].step = "stamp"
  \/ userVersion = 0 /\ opening[i].step = "create" /\ created = opening[i].at - 1

Creation ==
  /\ (created = 0 /\ userVersion = 0) \/ creators # {}
  /\ \A i \in Instance :
       opening[i].step \in {"create", "stamp", "failed"} => i \in creators

NoFailureAlone == \A i \in Instance : cut = FALSE /\ creators = {i} => SoleCreator(i)

SchemaInv == SchemaTypes /\ StampIsLast /\ Creation /\ NoFailureAlone
----------------------------------------------------------------------------

LEMMA StepNames ==
  /\ "down" \in Steps /\ "check" \in Steps /\ "create" \in Steps
  /\ "stamp" \in Steps /\ "up" \in Steps /\ "failed" \in Steps
  /\ 0 \in 0..Statements /\ 1 \in 0..Statements
BY DEF Steps, Statements

LEMMA InitSchemaInv == SchemaInit => SchemaInv
<1> SUFFICES ASSUME SchemaInit PROVE SchemaInv
  OBVIOUS
<1>1. \A i \in Instance : opening[i].step = "down" /\ opening[i].at = 0
  BY DEF SchemaInit
<1>2. SchemaTypes
  <2>1. opening \in [Instance -> [step : Steps, at : 0..Statements]]
    BY StepNames DEF SchemaInit
  <2>2. created \in 0..Statements /\ userVersion \in {0, 1} /\ creators \subseteq Instance
    BY DEF SchemaInit, Statements
  <2>3. cut \in BOOLEAN
    BY DEF SchemaInit
  <2> QED BY <2>1, <2>2, <2>3, Zenon DEF SchemaTypes
<1>3. StampIsLast
  BY <1>1 DEF SchemaInit, StampIsLast
<1>4. Creation
  BY <1>1 DEF SchemaInit, Creation
<1>5. NoFailureAlone
  BY DEF SchemaInit, NoFailureAlone
<1> QED BY <1>2, <1>3, <1>4, <1>5 DEF SchemaInv

\* What the step of one instance does to `opening`.
LEMMA GoMoves ==
  ASSUME SchemaTypes, NEW i \in Instance, NEW s \in Steps, NEW a \in 0..Statements,
         Go(i, s, a)
  PROVE  /\ opening' \in [Instance -> [step : Steps, at : 0..Statements]]
         /\ opening'[i].step = s /\ opening'[i].at = a
         /\ \A j \in Instance : j # i => opening'[j] = opening[j]
<1>1. opening' = [opening EXCEPT ![i] = [step |-> s, at |-> a]]
  BY DEF Go
<1>2. opening \in [Instance -> [step : Steps, at : 0..Statements]]
  BY DEF SchemaTypes
<1> QED BY <1>1, <1>2

LEMMA LaunchStep ==
  ASSUME SchemaInv, NEW i \in Instance, Launch(i)
  PROVE  SchemaInv'
<1> USE DEF SchemaInv
<1>0. SchemaTypes /\ StampIsLast /\ Creation /\ NoFailureAlone
  OBVIOUS
<1>1. /\ opening[i].step = "down" /\ Go(i, "check", 0)
      /\ UNCHANGED <<created, userVersion, kills, cut, creators>>
  BY DEF Launch
<1>2. /\ opening' \in [Instance -> [step : Steps, at : 0..Statements]]
      /\ opening'[i].step = "check"
      /\ \A j \in Instance : j # i => opening'[j] = opening[j]
  BY <1>0, <1>1, GoMoves, StepNames
<1>3. SchemaTypes'
  BY <1>1, <1>2 DEF SchemaTypes
<1>4. StampIsLast'
  BY <1>1, <1>2 DEF StampIsLast
<1>5. Creation'
  BY <1>1, <1>2 DEF Creation
<1>6. NoFailureAlone'
  <2> SUFFICES ASSUME NEW j \in Instance, cut' = FALSE, creators' = {j} PROVE SoleCreator(j)'
    BY DEF NoFailureAlone
  <2>1. SoleCreator(j)
    BY <1>0, <1>1 DEF NoFailureAlone
  <2> QED BY <1>1, <1>2, <2>1 DEF SoleCreator
<1> QED BY <1>3, <1>4, <1>5, <1>6

LEMMA CheckVersionStep ==
  ASSUME SchemaInv, NEW i \in Instance, CheckVersion(i)
  PROVE  SchemaInv'
<1> USE DEF SchemaInv
<1>0. SchemaTypes /\ StampIsLast /\ Creation /\ NoFailureAlone
  OBVIOUS
<1>1. CASE userVersion < 1
  <2>1. /\ opening[i].step = "check" /\ Go(i, "create", 1)
        /\ creators' = creators \cup {i}
        /\ UNCHANGED <<created, userVersion, kills, cut>>
    BY <1>1 DEF CheckVersion
  <2>2. /\ opening' \in [Instance -> [step : Steps, at : 0..Statements]]
        /\ opening'[i].step = "create" /\ opening'[i].at = 1
        /\ \A j \in Instance : j # i => opening'[j] = opening[j]
    BY <1>0, <2>1, GoMoves, StepNames
  <2>3. userVersion = 0
    BY <1>1 DEF SchemaTypes
  <2>4. SchemaTypes'
    BY <2>1, <2>2 DEF SchemaTypes
  <2>5. StampIsLast'
    BY <2>1, <2>2 DEF StampIsLast, Statements
  <2>6. ASSUME NEW j \in Instance, cut' = FALSE, creators' = {j} PROVE SoleCreator(j)'
    <3>1. j = i /\ (creators = {} \/ creators = {i})
      BY <2>1, <2>6 DEF SchemaTypes
    <3>2. creators # {i}
      BY <2>1, <2>3, <2>6 DEF NoFailureAlone, SoleCreator
    <3> QED BY <2>1, <2>2, <2>3, <3>1, <3>2 DEF Creation, SoleCreator
  <2>7. Creation'
    BY <2>1, <2>2 DEF Creation
  <2>8. NoFailureAlone'
    BY <2>6 DEF NoFailureAlone
  <2> QED BY <2>4, <2>5, <2>7, <2>8
<1>2. CASE ~(userVersion < 1)
  <2>1. /\ opening[i].step = "check" /\ Go(i, "up", 0)
        /\ UNCHANGED <<created, userVersion, kills, cut, creators>>
    BY <1>2 DEF CheckVersion
  <2>2. /\ opening' \in [Instance -> [step : Steps, at : 0..Statements]]
        /\ opening'[i].step = "up"
        /\ \A j \in Instance : j # i => opening'[j] = opening[j]
    BY <1>0, <2>1, GoMoves, StepNames
  <2>3. userVersion = 1
    BY <1>2 DEF SchemaTypes
  <2>4. SchemaTypes'
    BY <2>1, <2>2 DEF SchemaTypes
  <2>5. StampIsLast'
    BY <2>1, <2>2, <2>3 DEF StampIsLast
  <2>6. Creation'
    BY <2>1, <2>2 DEF Creation
  <2>7. NoFailureAlone'
    <3> SUFFICES ASSUME NEW j \in Instance, cut' = FALSE, creators' = {j} PROVE SoleCreator(j)'
      BY DEF NoFailureAlone
    <3>1. SoleCreator(j)
      BY <2>1 DEF NoFailureAlone
    <3> QED BY <2>1, <2>2, <2>3, <3>1 DEF SoleCreator
  <2> QED BY <2>4, <2>5, <2>6, <2>7
<1> QED BY <1>1, <1>2

LEMMA CreateNextStep ==
  ASSUME SchemaInv, NEW i \in Instance, CreateNext(i)
  PROVE  SchemaInv'
<1> USE DEF SchemaInv
<1>0. SchemaTypes /\ StampIsLast /\ Creation /\ NoFailureAlone
  OBVIOUS
<1>1. /\ opening[i].step = "create" /\ opening[i].at \in 1..Statements
      /\ i \in creators /\ created \in 0..Statements
      /\ UNCHANGED <<userVersion, kills, cut, creators>>
  BY DEF CreateNext, StampIsLast, Creation, SchemaTypes
<1>2. CASE created >= opening[i].at
  <2>1. Go(i, "failed", 0) /\ created' = created
    BY <1>2 DEF CreateNext
  <2>2. /\ opening' \in [Instance -> [step : Steps, at : 0..Statements]]
        /\ opening'[i].step = "failed"
        /\ \A j \in Instance : j # i => opening'[j] = opening[j]
    BY <1>0, <2>1, GoMoves, StepNames
  <2>3. SchemaTypes'
    BY <1>1, <2>1, <2>2 DEF SchemaTypes
  <2>4. StampIsLast'
    BY <1>1, <2>1, <2>2 DEF StampIsLast
  <2>5. ~(cut = FALSE /\ creators = {i})
    BY <1>1, <1>2 DEF NoFailureAlone, SoleCreator, Statements
  <2>6. Creation'
    BY <1>1, <2>1, <2>2 DEF Creation
  <2>7. NoFailureAlone'
    BY <1>1, <2>5 DEF NoFailureAlone
  <2> QED BY <2>3, <2>4, <2>6, <2>7
<1>3. CASE ~(created >= opening[i].at)
  <2>1. /\ created' = opening[i].at
        /\ IF opening[i].at = Statements THEN Go(i, "stamp", 0)
           ELSE Go(i, "create", opening[i].at + 1)
    BY <1>3 DEF CreateNext
  <2>2. userVersion = 0
    BY <1>1, <1>3 DEF StampIsLast, SchemaTypes, Statements
  <2>3. PICK s \in Steps, a \in 0..Statements :
          /\ Go(i, s, a)
          /\ \/ s = "stamp" /\ opening[i].at = Statements
             \/ s = "create" /\ a = opening[i].at + 1 /\ opening[i].at < Statements
    BY <1>1, <2>1 DEF Steps, Statements
  <2>4. /\ opening' \in [Instance -> [step : Steps, at : 0..Statements]]
        /\ opening'[i].step = s /\ opening'[i].at = a
        /\ \A j \in Instance : j # i => opening'[j] = opening[j]
    BY <1>0, <2>3, GoMoves
  <2>5. SchemaTypes'
    BY <1>1, <2>1, <2>4 DEF SchemaTypes, Statements
  <2>6. \A j \in Instance : j # i => opening[j].step \notin {"stamp", "up"}
    BY <1>1, <1>3, <2>2 DEF StampIsLast, Statements
  <2>7. StampIsLast'
    BY <1>1, <2>1, <2>2, <2>3, <2>4, <2>6 DEF StampIsLast, Statements
  <2>8. Creation'
    BY <1>1, <2>4 DEF Creation
  <2>9. NoFailureAlone'
    <3> SUFFICES ASSUME NEW j \in Instance, cut' = FALSE, creators' = {j} PROVE SoleCreator(j)'
      BY DEF NoFailureAlone
    <3>1. j = i
      BY <1>1
    <3> QED BY <1>1, <2>1, <2>2, <2>3, <2>4, <3>1 DEF SoleCreator, Statements
  <2> QED BY <2>5, <2>7, <2>8, <2>9
<1> QED BY <1>2, <1>3

LEMMA StampStep ==
  ASSUME SchemaInv, NEW i \in Instance, Stamp(i)
  PROVE  SchemaInv'
<1> USE DEF SchemaInv
<1>0. SchemaTypes /\ StampIsLast /\ Creation /\ NoFailureAlone
  OBVIOUS
<1>1. /\ opening[i].step = "stamp" /\ Go(i, "up", 0) /\ userVersion' = 1
      /\ UNCHANGED <<created, kills, cut, creators>>
  BY DEF Stamp
<1>2. /\ opening' \in [Instance -> [step : Steps, at : 0..Statements]]
      /\ opening'[i].step = "up"
      /\ \A j \in Instance : j # i => opening'[j] = opening[j]
  BY <1>0, <1>1, GoMoves, StepNames
<1>3. i \in creators /\ created = Statements
  BY <1>1 DEF Creation, StampIsLast
<1>4. SchemaTypes'
  BY <1>1, <1>2 DEF SchemaTypes
<1>5. StampIsLast'
  BY <1>1, <1>2, <1>3 DEF StampIsLast
<1>6. Creation'
  BY <1>1, <1>2, <1>3 DEF Creation
<1>7. NoFailureAlone'
  <2> SUFFICES ASSUME NEW j \in Instance, cut' = FALSE, creators' = {j} PROVE SoleCreator(j)'
    BY DEF NoFailureAlone
  <2> QED BY <1>1, <1>2, <1>3 DEF SoleCreator
<1> QED BY <1>4, <1>5, <1>6, <1>7

LEMMA KillStep ==
  ASSUME SchemaInv, NEW i \in Instance, Kill(i)
  PROVE  SchemaInv'
<1> USE DEF SchemaInv
<1>0. SchemaTypes /\ StampIsLast /\ Creation /\ NoFailureAlone
  OBVIOUS
<1>1. /\ Go(i, "down", 0) /\ cut' = (cut \/ opening[i].step \in {"create", "stamp"})
      /\ UNCHANGED <<created, userVersion, creators>>
  BY DEF Kill
<1>2. /\ opening' \in [Instance -> [step : Steps, at : 0..Statements]]
      /\ opening'[i].step = "down"
      /\ \A j \in Instance : j # i => opening'[j] = opening[j]
  BY <1>0, <1>1, GoMoves, StepNames
<1>3. SchemaTypes'
  BY <1>1, <1>2 DEF SchemaTypes
<1>4. StampIsLast'
  BY <1>1, <1>2 DEF StampIsLast
<1>5. Creation'
  BY <1>1, <1>2 DEF Creation
<1>6. NoFailureAlone'
  <2> SUFFICES ASSUME NEW j \in Instance, cut' = FALSE, creators' = {j} PROVE SoleCreator(j)'
    BY DEF NoFailureAlone
  <2>1. cut = FALSE /\ creators = {j}
    <3>1. cut \in BOOLEAN
      BY <1>0 DEF SchemaTypes
    <3> QED BY <1>1, <3>1
  <2>2. SoleCreator(j)
    BY <1>0, <2>1 DEF NoFailureAlone
  <2>3. opening[j].step \notin {"create", "stamp"} \/ j # i
    BY <1>1
  <2> QED BY <1>1, <1>2, <2>2, <2>3 DEF SoleCreator
<1> QED BY <1>3, <1>4, <1>5, <1>6

----------------------------------------------------------------------------

(* However many instances are started on one file and killed: an instance   *)
(* that is up works on a complete schema, and one fails only because of     *)
(* another one that creates the schema, or because one was killed in it.    *)
THEOREM LaunchOutcomeHolds == SchemaSpec => []LaunchOutcome
<1>1. SchemaInit => SchemaInv
  BY InitSchemaInv
<1>2. SchemaInv /\ [SchemaNext]_schemaVars => SchemaInv'
  <2> SUFFICES ASSUME SchemaInv, [SchemaNext]_schemaVars PROVE SchemaInv'
    OBVIOUS
  <2>1. ASSUME NEW i \in Instance, Launch(i) \/ Proceed(i) \/ Kill(i) PROVE SchemaInv'
    BY <2>1, LaunchStep, CheckVersionStep, CreateNextStep, StampStep, KillStep DEF Proceed
  <2>2. CASE UNCHANGED schemaVars
    BY <2>2 DEF schemaVars, SchemaInv, SchemaTypes, StampIsLast, Creation, NoFailureAlone, SoleCreator
  <2> QED BY <2>1, <2>2 DEF SchemaNext
<1>3. SchemaInv => LaunchOutcome
  <2> SUFFICES ASSUME SchemaInv PROVE LaunchOutcome
    OBVIOUS
  <2>1. (userVersion = 1 \/ \E i \in Instance : opening[i].step = "up") => created = Statements
    BY DEF SchemaInv, StampIsLast
  <2>2. ASSUME NEW i \in Instance, opening[i].step = "failed" PROVE cut \/ creators # {i}
    BY <2>2 DEF SchemaInv, SchemaTypes, NoFailureAlone, SoleCreator
  <2> QED BY <2>1, <2>2 DEF LaunchOutcome
<1> QED BY <1>1, <1>2, <1>3, PTL DEF SchemaSpec
=============================================================================
