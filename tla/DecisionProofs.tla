--------------------------- MODULE DecisionProofs ---------------------------
(***************************************************************************)
(* Theorems about the two decisions that are made before anything is       *)
(* written: whose account it is (SignIn), for any accounts and any number  *)
(* of commands, faults and stops, and what is to be written (Planning),    *)
(* for any tracks, similarities, libraries and settings, and any search    *)
(* results.                                                                *)
(***************************************************************************)
EXTENDS SignIn, Planning, SublistProofs, FiniteSetTheorems

(***************************************************************************)
(* Whose account it is                                                     *)
(***************************************************************************)
(* The commands that sign in.                                              *)
Commands ==
  {"transfer", "backup", "resume_transfer", "restore", "cleanup",
   "resume_cleanup"}

TypeInv ==
  /\ program \in {"menu", "cli"}
  /\ backend \in BOOLEAN
  /\ keyring \in [Roles -> Accounts \cup {NoOne, "malformed"}]
  /\ accepted \in [Roles -> BOOLEAN]
  /\ work \in [transfer : Accounts \cup {NoOne},
               operation : {"transfer", "restore"},
               cleanup : Accounts \cup {NoOne},
               job : Accounts \cup {NoOne}, target : Accounts \cup {NoOne}]
  /\ backups \subseteq Accounts
  /\ session \in [Roles -> Accounts \cup {NoOne}]
  /\ step \in {"idle", "login", "check"}
  /\ candidate \in Accounts \cup {NoOne}
  /\ hit \in BOOLEAN
  /\ stops \in Nat

(* The stages that a command has behind it.                                *)
Passed == Len(Stages(command)) - Len(todo)

StageNames ==
  {"source", "destination", "source_adapter", "destination_adapter", "row",
   "choose", "compare", "compare_checkpoint", "create_job", "checkpoint",
   "copy", "backup", "enqueue", "delete"}

(* What is to come are the last stages of the command.                     *)
StageInv ==
  /\ command = "none" =>
       todo = <<>> /\ step = "idle" /\ session = [r \in Roles |-> NoOne]
  /\ command # "none" =>
       /\ command \in Commands
       /\ program = "cli" => command \in {"transfer", "backup", "resume_transfer"}
       /\ todo \in Seq(StageNames)
       /\ Len(todo) \in 1 .. Len(Stages(command))
       /\ \A n \in 1 .. Len(todo) : todo[n] = Stages(command)[Passed + n]
  /\ step # "idle" => command # "none" /\ SignsIn(Head(todo))

(* The sessions of a restore are its source, which is a file, and the one  *)
(* destination that signs in.                                              *)
SignedIn(r) == session[r] # NoOne /\ (command = "restore" => r = "destination")

(* A role that was signed in has an account, and its session is the one in *)
(* the keyring unless none is there any more.                              *)
SavedInv ==
  /\ command # "none" =>
       \A n \in 1 .. Passed : Stages(command)[n] \in Roles =>
         session[Stages(command)[n]] # NoOne
  /\ backend => \A r \in Roles : SignedIn(r) =>
       keyring[r] \in {session[r], NoOne, "malformed"}
  /\ step = "login" /\ backend => keyring[Role] = NoOne
  /\ step = "check" =>
       /\ candidate # NoOne
       /\ backend => keyring[Role] \in {candidate, NoOne, "malformed"}
       /\ Head(todo) \notin Roles => candidate = session[Role]

(* What a command has compared or backed up still holds of its sessions.   *)
ComparedInv ==
  /\ program = "menu" /\ command = "transfer" /\ Passed >= 3 =>
       session["source"] # session["destination"]
  /\ program = "cli" /\ command = "transfer" /\ Passed >= 5 =>
       session["source"] # session["destination"]
  /\ program = "menu" /\ command = "resume_transfer" /\ Passed >= 2 =>
       work.operation = "restore" \/ work.transfer # session["destination"]
  /\ command = "cleanup" /\ Passed >= 2 => session["source"] \in backups

(* Without a failure during the command, what was saved can be restored.   *)
RestorableInv ==
  command # "none" /\ ~hit =>
    /\ backend => \A r \in Roles : SignedIn(r) =>
         keyring[r] = session[r] /\ accepted[r]
    /\ step = "login" => Head(todo) \in Roles

IInv == TypeInv /\ StageInv /\ SavedInv /\ ComparedInv /\ RightAccount

USE SignInAssumption
----------------------------------------------------------------------------
(* Lemmas about the tables of stages.                                      *)

(* A command that the program offers.                                      *)
IsCommand(c) ==
  /\ program \in {"menu", "cli"}
  /\ c \in Commands
  /\ program = "cli" => c \in {"transfer", "backup", "resume_transfer"}

(* What writes comes last, and after the stage that compares, backs up or  *)
(* names the accounts.                                                     *)
WritingAt(c, n) ==
  /\ Stages(c)[n] = "copy" =>
       /\ n = Len(Stages(c))
       /\ \/ c = "restore" /\ program = "menu"
          \/ c = "resume_transfer" /\ program = "cli"
          \/ c = "transfer" /\ program = "menu" /\ n >= 4
          \/ c = "transfer" /\ program = "cli" /\ n >= 6
          \/ c = "resume_transfer" /\ program = "menu" /\ n >= 3
  /\ Stages(c)[n] = "delete" =>
       n = Len(Stages(c)) /\ (c = "resume_cleanup" \/ (c = "cleanup" /\ n >= 3))
  /\ Stages(c)[n] = "checkpoint" => c \in {"transfer", "restore"}
  /\ Stages(c)[n] = "enqueue" => c = "cleanup"

(* The stages that compare, or back up, in each command that has one.      *)
ComparingAt(c, n) ==
  /\ Stages(c)[n] = "create_job" => c = "transfer" /\ program = "cli"
  /\ c = "transfer" /\ program = "menu" /\ n = 3 => Stages(c)[n] = "compare"
  /\ c = "transfer" /\ program = "cli" /\ n = 5 => Stages(c)[n] = "create_job"
  /\ c = "resume_transfer" /\ program = "menu" /\ n = 2 =>
       Stages(c)[n] = "compare_checkpoint"
  /\ c = "cleanup" /\ n = 2 => Stages(c)[n] = "backup"

(* A sign-in is never the last stage, and the roles sign in before the     *)
(* stage that compares; an adapter follows the sign-in of its role, and a  *)
(* backup that of the source.                                              *)
SigningAt(c, n) ==
  /\ SignsIn(Stages(c)[n]) \/ Stages(c)[n] = "choose" => n < Len(Stages(c))
  /\ Stages(c)[n] = "choose" => c = "restore"
  /\ c = "restore" /\ SignsIn(Stages(c)[n]) => Stages(c)[n] = "destination"
  /\ Stages(c)[n] \in Roles =>
       /\ c = "transfer" /\ program = "menu" => n <= 2
       /\ c = "transfer" /\ program = "cli" => n <= 3
       /\ c = "resume_transfer" /\ program = "menu" => n <= 1
       /\ c = "cleanup" => n <= 1
  /\ Stages(c)[n] \in {"source_adapter", "backup"} =>
       \E m \in 1 .. n - 1 : Stages(c)[m] = "source"
  /\ Stages(c)[n] = "destination_adapter" =>
       \E m \in 1 .. n - 1 : Stages(c)[m] = "destination"

(* The tables of the stages, entry by entry.                               *)
LEMMA StageTable ==
  ASSUME NEW c, IsCommand(c)
  PROVE  /\ Stages(c) \in Seq(StageNames)
         /\ Len(Stages(c)) \in Nat \ {0}
         /\ \A n \in 1 .. Len(Stages(c)) :
              WritingAt(c, n) /\ ComparingAt(c, n) /\ SigningAt(c, n)
<1>1. CASE program = "menu" /\ c = "transfer"
  <2>1. /\ Len(Stages(c)) = 5
        /\ Stages(c) \in Seq(StageNames)
        /\ Stages(c)[1] = "source" /\ Stages(c)[2] = "destination"
        /\ Stages(c)[3] = "compare" /\ Stages(c)[4] = "checkpoint"
        /\ Stages(c)[5] = "copy"
    BY <1>1 DEF Stages, MenuStages, StageNames
  <2> SUFFICES ASSUME NEW n \in 1 .. 5
               PROVE  WritingAt(c, n) /\ ComparingAt(c, n) /\ SigningAt(c, n)
    BY <2>1
  <2>2. WritingAt(c, n)
    <3>1. Stages(c)[n] = "copy" => n = Len(Stages(c))
      BY <2>1
    <3>2. Stages(c)[n] = "delete" => n = Len(Stages(c))
      BY <2>1
    <3>3. Stages(c)[n] # "checkpoint" \/ c \in {"transfer", "restore"}
      BY <1>1, <2>1
    <3>4. Stages(c)[n] # "enqueue" \/ c = "cleanup"
      BY <1>1, <2>1
    <3> QED
      BY <3>1, <3>2, <3>3, <3>4, <1>1, <2>1 DEF WritingAt
  <2>3. ComparingAt(c, n)
    BY <1>1, <2>1 DEF ComparingAt
  <2>4. SigningAt(c, n)
    BY <1>1, <2>1 DEF SigningAt, SignsIn, Roles
  <2> QED
    BY <2>2, <2>3, <2>4
<1>2. CASE program = "menu" /\ c = "resume_transfer"
  <2>1. /\ Len(Stages(c)) = 3
        /\ Stages(c) \in Seq(StageNames)
        /\ Stages(c)[1] = "destination" /\ Stages(c)[2] = "compare_checkpoint"
        /\ Stages(c)[3] = "copy"
    BY <1>2 DEF Stages, MenuStages, StageNames
  <2> SUFFICES ASSUME NEW n \in 1 .. 3
               PROVE  WritingAt(c, n) /\ ComparingAt(c, n) /\ SigningAt(c, n)
    BY <2>1
  <2>2. WritingAt(c, n)
    <3>1. Stages(c)[n] = "copy" => n = Len(Stages(c))
      BY <2>1
    <3>2. Stages(c)[n] = "delete" => n = Len(Stages(c))
      BY <2>1
    <3>3. Stages(c)[n] # "checkpoint" \/ c \in {"transfer", "restore"}
      BY <1>2, <2>1
    <3>4. Stages(c)[n] # "enqueue" \/ c = "cleanup"
      BY <1>2, <2>1
    <3> QED
      BY <3>1, <3>2, <3>3, <3>4, <1>2, <2>1 DEF WritingAt
  <2>3. ComparingAt(c, n)
    BY <1>2, <2>1 DEF ComparingAt
  <2>4. SigningAt(c, n)
    BY <1>2, <2>1 DEF SigningAt, SignsIn, Roles
  <2> QED
    BY <2>2, <2>3, <2>4
<1>3. CASE program = "menu" /\ c = "restore"
  <2>1. /\ Len(Stages(c)) = 4
        /\ Stages(c) \in Seq(StageNames)
        /\ Stages(c)[1] = "choose" /\ Stages(c)[2] = "destination"
        /\ Stages(c)[3] = "checkpoint" /\ Stages(c)[4] = "copy"
    BY <1>3 DEF Stages, MenuStages, StageNames
  <2> SUFFICES ASSUME NEW n \in 1 .. 4
               PROVE  WritingAt(c, n) /\ ComparingAt(c, n) /\ SigningAt(c, n)
    BY <2>1
  <2>2. WritingAt(c, n)
    <3>1. Stages(c)[n] = "copy" => n = Len(Stages(c))
      BY <2>1
    <3>2. Stages(c)[n] = "delete" => n = Len(Stages(c))
      BY <2>1
    <3>3. Stages(c)[n] # "checkpoint" \/ c \in {"transfer", "restore"}
      BY <1>3, <2>1
    <3>4. Stages(c)[n] # "enqueue" \/ c = "cleanup"
      BY <1>3, <2>1
    <3> QED
      BY <3>1, <3>2, <3>3, <3>4, <1>3, <2>1 DEF WritingAt
  <2>3. ComparingAt(c, n)
    BY <1>3, <2>1 DEF ComparingAt
  <2>4. SigningAt(c, n)
    BY <1>3, <2>1 DEF SigningAt, SignsIn, Roles
  <2> QED
    BY <2>2, <2>3, <2>4
<1>4. CASE program = "menu" /\ c = "backup"
  <2>1. /\ Len(Stages(c)) = 2
        /\ Stages(c) \in Seq(StageNames)
        /\ Stages(c)[1] = "source" /\ Stages(c)[2] = "backup"
    BY <1>4 DEF Stages, MenuStages, StageNames
  <2> SUFFICES ASSUME NEW n \in 1 .. 2
               PROVE  WritingAt(c, n) /\ ComparingAt(c, n) /\ SigningAt(c, n)
    BY <2>1
  <2>2. WritingAt(c, n)
    <3>1. Stages(c)[n] = "copy" => n = Len(Stages(c))
      BY <2>1
    <3>2. Stages(c)[n] = "delete" => n = Len(Stages(c))
      BY <2>1
    <3>3. Stages(c)[n] # "checkpoint" \/ c \in {"transfer", "restore"}
      BY <1>4, <2>1
    <3>4. Stages(c)[n] # "enqueue" \/ c = "cleanup"
      BY <1>4, <2>1
    <3> QED
      BY <3>1, <3>2, <3>3, <3>4, <1>4, <2>1 DEF WritingAt
  <2>3. ComparingAt(c, n)
    BY <1>4, <2>1 DEF ComparingAt
  <2>4. SigningAt(c, n)
    BY <1>4, <2>1 DEF SigningAt, SignsIn, Roles
  <2> QED
    BY <2>2, <2>3, <2>4
<1>5. CASE program = "menu" /\ c = "cleanup"
  <2>1. /\ Len(Stages(c)) = 4
        /\ Stages(c) \in Seq(StageNames)
        /\ Stages(c)[1] = "source" /\ Stages(c)[2] = "backup"
        /\ Stages(c)[3] = "enqueue" /\ Stages(c)[4] = "delete"
    BY <1>5 DEF Stages, MenuStages, StageNames
  <2> SUFFICES ASSUME NEW n \in 1 .. 4
               PROVE  WritingAt(c, n) /\ ComparingAt(c, n) /\ SigningAt(c, n)
    BY <2>1
  <2>2. WritingAt(c, n)
    <3>1. Stages(c)[n] = "copy" => n = Len(Stages(c))
      BY <2>1
    <3>2. Stages(c)[n] = "delete" => n = Len(Stages(c))
      BY <2>1
    <3>3. Stages(c)[n] # "checkpoint" \/ c \in {"transfer", "restore"}
      BY <1>5, <2>1
    <3>4. Stages(c)[n] # "enqueue" \/ c = "cleanup"
      BY <1>5, <2>1
    <3> QED
      BY <3>1, <3>2, <3>3, <3>4, <1>5, <2>1 DEF WritingAt
  <2>3. ComparingAt(c, n)
    BY <1>5, <2>1 DEF ComparingAt
  <2>4. SigningAt(c, n)
    BY <1>5, <2>1 DEF SigningAt, SignsIn, Roles
  <2> QED
    BY <2>2, <2>3, <2>4
<1>6. CASE program = "menu" /\ c = "resume_cleanup"
  <2>1. /\ Len(Stages(c)) = 2
        /\ Stages(c) \in Seq(StageNames)
        /\ Stages(c)[1] = "source" /\ Stages(c)[2] = "delete"
    BY <1>6 DEF Stages, MenuStages, StageNames
  <2> SUFFICES ASSUME NEW n \in 1 .. 2
               PROVE  WritingAt(c, n) /\ ComparingAt(c, n) /\ SigningAt(c, n)
    BY <2>1
  <2>2. WritingAt(c, n)
    <3>1. Stages(c)[n] = "copy" => n = Len(Stages(c))
      BY <2>1
    <3>2. Stages(c)[n] = "delete" => n = Len(Stages(c))
      BY <2>1
    <3>3. Stages(c)[n] # "checkpoint" \/ c \in {"transfer", "restore"}
      BY <1>6, <2>1
    <3>4. Stages(c)[n] # "enqueue" \/ c = "cleanup"
      BY <1>6, <2>1
    <3> QED
      BY <3>1, <3>2, <3>3, <3>4, <1>6, <2>1 DEF WritingAt
  <2>3. ComparingAt(c, n)
    BY <1>6, <2>1 DEF ComparingAt
  <2>4. SigningAt(c, n)
    BY <1>6, <2>1 DEF SigningAt, SignsIn, Roles
  <2> QED
    BY <2>2, <2>3, <2>4
<1>7. CASE program = "cli" /\ c = "transfer"
  <2>1. /\ Len(Stages(c)) = 8
        /\ Stages(c) \in Seq(StageNames)
        /\ Stages(c)[1] = "source" /\ Stages(c)[2] = "row"
        /\ Stages(c)[3] = "destination" /\ Stages(c)[4] = "row"
        /\ Stages(c)[5] = "create_job" /\ Stages(c)[6] = "source_adapter"
        /\ Stages(c)[7] = "destination_adapter" /\ Stages(c)[8] = "copy"
    BY <1>7 DEF Stages, CliStages, StageNames
  <2> SUFFICES ASSUME NEW n \in 1 .. 8
               PROVE  WritingAt(c, n) /\ ComparingAt(c, n) /\ SigningAt(c, n)
    BY <2>1
  <2>2. WritingAt(c, n)
    <3>1. Stages(c)[n] = "copy" => n = Len(Stages(c))
      BY <2>1
    <3>2. Stages(c)[n] = "delete" => n = Len(Stages(c))
      BY <2>1
    <3>3. Stages(c)[n] # "checkpoint" \/ c \in {"transfer", "restore"}
      BY <1>7, <2>1
    <3>4. Stages(c)[n] # "enqueue" \/ c = "cleanup"
      BY <1>7, <2>1
    <3> QED
      BY <3>1, <3>2, <3>3, <3>4, <1>7, <2>1 DEF WritingAt
  <2>3. ComparingAt(c, n)
    BY <1>7, <2>1 DEF ComparingAt
  <2>4. SigningAt(c, n)
    BY <1>7, <2>1 DEF SigningAt, SignsIn, Roles
  <2> QED
    BY <2>2, <2>3, <2>4
<1>8. CASE program = "cli" /\ c = "resume_transfer"
  <2>1. /\ Len(Stages(c)) = 4
        /\ Stages(c) \in Seq(StageNames)
        /\ Stages(c)[1] = "destination" /\ Stages(c)[2] = "row"
        /\ Stages(c)[3] = "destination_adapter" /\ Stages(c)[4] = "copy"
    BY <1>8 DEF Stages, CliStages, StageNames
  <2> SUFFICES ASSUME NEW n \in 1 .. 4
               PROVE  WritingAt(c, n) /\ ComparingAt(c, n) /\ SigningAt(c, n)
    BY <2>1
  <2>2. WritingAt(c, n)
    <3>1. Stages(c)[n] = "copy" => n = Len(Stages(c))
      BY <2>1
    <3>2. Stages(c)[n] = "delete" => n = Len(Stages(c))
      BY <2>1
    <3>3. Stages(c)[n] # "checkpoint" \/ c \in {"transfer", "restore"}
      BY <1>8, <2>1
    <3>4. Stages(c)[n] # "enqueue" \/ c = "cleanup"
      BY <1>8, <2>1
    <3> QED
      BY <3>1, <3>2, <3>3, <3>4, <1>8, <2>1 DEF WritingAt
  <2>3. ComparingAt(c, n)
    BY <1>8, <2>1 DEF ComparingAt
  <2>4. SigningAt(c, n)
    BY <1>8, <2>1 DEF SigningAt, SignsIn, Roles
  <2> QED
    BY <2>2, <2>3, <2>4
<1>9. CASE program = "cli" /\ c = "backup"
  <2>1. /\ Len(Stages(c)) = 4
        /\ Stages(c) \in Seq(StageNames)
        /\ Stages(c)[1] = "source" /\ Stages(c)[2] = "row"
        /\ Stages(c)[3] = "source_adapter" /\ Stages(c)[4] = "backup"
    BY <1>9 DEF Stages, CliStages, StageNames
  <2> SUFFICES ASSUME NEW n \in 1 .. 4
               PROVE  WritingAt(c, n) /\ ComparingAt(c, n) /\ SigningAt(c, n)
    BY <2>1
  <2>2. WritingAt(c, n)
    <3>1. Stages(c)[n] = "copy" => n = Len(Stages(c))
      BY <2>1
    <3>2. Stages(c)[n] = "delete" => n = Len(Stages(c))
      BY <2>1
    <3>3. Stages(c)[n] # "checkpoint" \/ c \in {"transfer", "restore"}
      BY <1>9, <2>1
    <3>4. Stages(c)[n] # "enqueue" \/ c = "cleanup"
      BY <1>9, <2>1
    <3> QED
      BY <3>1, <3>2, <3>3, <3>4, <1>9, <2>1 DEF WritingAt
  <2>3. ComparingAt(c, n)
    BY <1>9, <2>1 DEF ComparingAt
  <2>4. SigningAt(c, n)
    BY <1>9, <2>1 DEF SigningAt, SignsIn, Roles
  <2> QED
    BY <2>2, <2>3, <2>4
<1> QED
  BY <1>1, <1>2, <1>3, <1>4, <1>5, <1>6, <1>7, <1>8, <1>9 DEF IsCommand, Commands
----------------------------------------------------------------------------
(* What is known of the stage a command has come to.                       *)
LEMMA AtStage ==
  ASSUME TypeInv, StageInv, command # "none"
  PROVE  /\ IsCommand(command)
         /\ todo \in Seq(StageNames) /\ Len(todo) \in Nat \ {0}
         /\ Passed \in Nat /\ Passed + 1 \in 1 .. Len(Stages(command))
         /\ Len(todo) = Len(Stages(command)) - Passed
         /\ Head(todo) = Stages(command)[Passed + 1]
         /\ WritingAt(command, Passed + 1)
         /\ ComparingAt(command, Passed + 1)
         /\ SigningAt(command, Passed + 1)
<1>1. IsCommand(command)
  BY DEF IsCommand, TypeInv, StageInv
<1>2. todo \in Seq(StageNames) /\ Len(todo) \in Nat \ {0}
  BY DEF StageInv
<1>3. Len(Stages(command)) \in Nat
  BY <1>1, StageTable
<1>4. Len(todo) <= Len(Stages(command))
  BY DEF StageInv
<1>5. /\ Passed \in Nat /\ Passed + 1 \in 1 .. Len(Stages(command))
      /\ Len(todo) = Len(Stages(command)) - Passed
  BY <1>2, <1>3, <1>4 DEF Passed
<1>6. Head(todo) = Stages(command)[Passed + 1]
  <2>1. Head(todo) = todo[1]
    BY <1>2
  <2>2. todo[1] = Stages(command)[Passed + 1]
    BY <1>2 DEF StageInv
  <2> QED
    BY <2>1, <2>2
<1> QED
  BY <1>1, <1>2, <1>5, <1>6, StageTable

(* A command that has ended has no session.                                *)
LEMMA EndKeeps ==
  ASSUME End
  PROVE  StageInv' /\ SavedInv' /\ ComparedInv'
<1>1. /\ command' = "none" /\ todo' = <<>> /\ step' = "idle"
      /\ session' = [r \in Roles |-> NoOne]
  BY DEF End
<1>2. StageInv'
  BY <1>1 DEF StageInv
<1>3. SavedInv'
  BY <1>1 DEF SavedInv, SignedIn
<1>4. ComparedInv'
  BY <1>1 DEF ComparedInv
<1> QED
  BY <1>2, <1>3, <1>4

(* The next stage of the same command.                                     *)
LEMMA NextStage ==
  ASSUME TypeInv, StageInv, command # "none", Len(todo) # 1, todo' = Tail(todo),
         program' = program, command' = command, step' = "idle"
  PROVE  /\ StageInv'
         /\ Passed' = Passed + 1
         /\ Stages(command)' = Stages(command)
<1>1. Stages(command)' = Stages(command)
  BY DEF Stages, MenuStages, CliStages
<1>2. /\ todo \in Seq(StageNames) /\ Len(todo) \in Nat \ {0}
      /\ Len(Stages(command)) \in Nat /\ Len(todo) <= Len(Stages(command))
      /\ Passed \in Nat
  BY AtStage, StageTable DEF StageInv
<1>3. /\ Tail(todo) \in Seq(StageNames)
      /\ Len(Tail(todo)) = Len(todo) - 1
      /\ \A n \in 1 .. Len(todo) - 1 : Tail(todo)[n] = todo[n + 1]
  BY <1>2
<1>4. Passed' = Passed + 1
  BY <1>1, <1>2, <1>3 DEF Passed
<1>5. \A n \in 1 .. Len(todo)' : todo'[n] = Stages(command)'[Passed' + n]
  <2> SUFFICES ASSUME NEW n \in 1 .. Len(todo) - 1
               PROVE  Tail(todo)[n] = Stages(command)[Passed + 1 + n]
    BY <1>1, <1>2, <1>3, <1>4
  <2>1. n + 1 \in 1 .. Len(todo)
    BY <1>2
  <2>2. todo[n + 1] = Stages(command)[Passed + (n + 1)]
    BY <2>1 DEF StageInv
  <2>3. Passed + (n + 1) = Passed + 1 + n
    BY <1>2
  <2> QED
    BY <1>3, <2>2, <2>3
<1>6. Len(todo)' \in 1 .. Len(Stages(command))'
  <2>1. Len(Tail(todo)) \in 1 .. Len(Stages(command))
    BY <1>2, <1>3
  <2> QED
    BY <1>1, <2>1
<1>7. command \in Commands /\ (program = "cli" => command \in {"transfer", "backup", "resume_transfer"})
  BY DEF StageInv
<1>8. StageInv'
  BY <1>3, <1>5, <1>6, <1>7 DEF StageInv
<1> QED
  BY <1>1, <1>4, <1>8

(* A stage that was no sign-in is passed: what it had to see to holds of   *)
(* the stages after it.                                                    *)
LEMMA PassKeeps ==
  ASSUME TypeInv, StageInv, SavedInv, ComparedInv, command # "none",
         step = "idle", Head(todo) \notin Roles, Pass,
         UNCHANGED <<program, backend, keyring>>,
         backups \subseteq backups',
         Head(todo) \in {"compare", "create_job"} /\ command' # "none" =>
           session["source"] # session["destination"],
         Head(todo) = "compare_checkpoint" /\ command' # "none" =>
           work.operation = "restore" \/ work.transfer # session["destination"],
         Head(todo) = "backup" => session["source"] \in backups',
         program = "menu" /\ command = "resume_transfer" /\ command' # "none" =>
           work' = work
  PROVE  StageInv' /\ SavedInv' /\ ComparedInv'
<1>1. CASE Len(todo) = 1
  BY <1>1, EndKeeps DEF Pass
<1>2. CASE Len(todo) # 1
  <2>1. /\ todo' = Tail(todo)
        /\ UNCHANGED <<command, step, candidate, session>>
    BY <1>2 DEF Pass, signing
  <2>2. StageInv' /\ Passed' = Passed + 1 /\ Stages(command)' = Stages(command)
    BY <2>1, <1>2, NextStage
  <2>3. /\ Passed \in Nat /\ Head(todo) = Stages(command)[Passed + 1]
        /\ ComparingAt(command, Passed + 1)
    BY AtStage
  <2>4. SavedInv'
    <3>1. ASSUME NEW n \in 1 .. Passed + 1, Stages(command)[n] \in Roles
          PROVE  session[Stages(command)[n]] # NoOne
      <4>1. n # Passed + 1
        BY <2>3, <3>1
      <4>2. n \in 1 .. Passed
        BY <2>3, <4>1
      <4> QED
        BY <3>1, <4>2 DEF SavedInv
    <3>2. \A n \in 1 .. Passed' : Stages(command)'[n] \in Roles =>
            session'[Stages(command)'[n]] # NoOne
      BY <2>1, <2>2, <3>1
    <3>3. \A r \in Roles : SignedIn(r)' = SignedIn(r)
      BY <2>1 DEF SignedIn
    <3>4. backend' => \A r \in Roles : SignedIn(r)' =>
            keyring'[r] \in {session'[r], NoOne, "malformed"}
      BY <2>1, <3>3 DEF SavedInv
    <3>5. step' = "idle"
      BY <2>1
    <3> QED
      BY <3>2, <3>4, <3>5 DEF SavedInv
  <2>5. ComparedInv'
    <3>1. ASSUME program = "menu", command = "transfer", Passed + 1 >= 3
          PROVE  session["source"] # session["destination"]
      <4>1. CASE Passed >= 3
        BY <3>1, <4>1 DEF ComparedInv
      <4>2. CASE Passed = 2
        BY <3>1, <4>2, <2>1, <2>3 DEF ComparingAt
      <4> QED
        BY <2>3, <3>1, <4>1, <4>2
    <3>2. ASSUME program = "cli", command = "transfer", Passed + 1 >= 5
          PROVE  session["source"] # session["destination"]
      <4>1. CASE Passed >= 5
        BY <3>2, <4>1 DEF ComparedInv
      <4>2. CASE Passed = 4
        BY <3>2, <4>2, <2>1, <2>3 DEF ComparingAt
      <4> QED
        BY <2>3, <3>2, <4>1, <4>2
    <3>3. ASSUME program = "menu", command = "resume_transfer", Passed + 1 >= 2
          PROVE  work'.operation = "restore" \/ work'.transfer # session["destination"]
      <4>1. CASE Passed >= 2
        BY <3>3, <4>1, <2>1 DEF ComparedInv
      <4>2. CASE Passed = 1
        BY <3>3, <4>2, <2>1, <2>3 DEF ComparingAt
      <4> QED
        BY <2>3, <3>3, <4>1, <4>2
    <3>4. ASSUME command = "cleanup", Passed + 1 >= 2
          PROVE  session["source"] \in backups'
      <4>1. CASE Passed >= 2
        BY <3>4, <4>1 DEF ComparedInv
      <4>2. CASE Passed = 1
        BY <3>4, <4>2, <2>3 DEF ComparingAt
      <4> QED
        BY <2>3, <3>4, <4>1, <4>2
    <3> QED
      BY <2>1, <2>2, <3>1, <3>2, <3>3, <3>4 DEF ComparedInv
  <2> QED
    BY <2>2, <2>4, <2>5
<1> QED
  BY <1>1, <1>2

(* The sessions, when a command ends or goes on.                           *)
LEMMA PassTypes ==
  ASSUME TypeInv, Pass \/ End
  PROVE  /\ session' \in [Roles -> Accounts \cup {NoOne}]
         /\ step' \in {"idle", "login", "check"}
         /\ candidate' \in Accounts \cup {NoOne}
         /\ command' \in {command, "none"}
  BY DEF TypeInv, Pass, End, signing

(* The role of the account of the moment.                                  *)
LEMMA RoleType == Role \in Roles
  BY DEF Role, Roles

(* The types are kept.                                                     *)
LEMMA TypeStep == TypeInv /\ StageInv /\ SavedInv /\ [Next]_vars => TypeInv'
<1> SUFFICES ASSUME TypeInv, StageInv, SavedInv, [Next]_vars PROVE TypeInv'
  OBVIOUS
<1> USE RoleType
<1> USE DEF TypeInv, durable, effects, signing, bounds, Succeeds, Fails
<1>18. stops' \in Nat
  BY DEF Next, vars, Give, LoadNothing, Restore, Login, LoginFails, Check, CheckFails,
         RecordRow, Compare, CreateJob, CompareCheckpoint, ChooseBackup, Checkpoint,
         Decline, Copy, Backup, Enqueue, Delete, Forget, Revoke, Stop
<1> USE <1>18
<1>1. ASSUME NEW c \in Offered, Give(c) PROVE TypeInv'
  BY <1>1 DEF Give
<1>2. CASE LoadNothing
  BY <1>2 DEF LoadNothing, Forgotten
<1>3. CASE Restore
  BY <1>3 DEF Restore, Forgotten
<1>4. CASE Login
  BY <1>4 DEF Login
<1>5. CASE LoginFails \/ CheckFails \/ Stop \/ Decline
  <2>1. End /\ hit' \in BOOLEAN /\ UNCHANGED <<program, durable, backend, accepted>>
    BY <1>5 DEF LoginFails, CheckFails, Stop, Decline
  <2> QED
    BY <2>1, PassTypes
<1>6. CASE Check
  <2>1. session' \in [Roles -> Accounts \cup {NoOne}]
    BY <1>6 DEF Check
  <2>2. keyring' \in [Roles -> Accounts \cup {NoOne, "malformed"}]
    <3>1. keyring' = keyring \/ keyring' = [keyring EXCEPT ![Role] = candidate]
      BY <1>6 DEF Check
    <3> QED
      BY <3>1
  <2>3. accepted' \in [Roles -> BOOLEAN]
    <3>1. accepted' = accepted \/ accepted' = [accepted EXCEPT ![Role] = TRUE]
      BY <1>6 DEF Check
    <3> QED
      BY <3>1
  <2>4. hit' \in BOOLEAN /\ step' = "idle" /\ candidate' = NoOne
    BY <1>6 DEF Check
  <2> QED
    BY <1>6, <2>1, <2>2, <2>3, <2>4 DEF Check
<1>7. CASE RecordRow \/ Compare \/ CompareCheckpoint
  <2>1. Pass \/ End
    BY <1>7 DEF RecordRow, Compare, CompareCheckpoint, Refuse
  <2>2. UNCHANGED <<program, backend, keyring, work, backups, accepted, hit>>
    BY <1>7 DEF RecordRow, Compare, CompareCheckpoint
  <2> QED
    BY <2>1, <2>2, PassTypes
<1>8. CASE CreateJob
  <2>1. Pass \/ End
    BY <1>8 DEF CreateJob, Refuse
  <2>2. session["source"] \in Accounts \cup {NoOne} /\ session["destination"] \in Accounts \cup {NoOne}
    BY DEF Roles
  <2>3. work' = work \/ work' = [work EXCEPT !.job = session["source"],
                                             !.target = session["destination"]]
    BY <1>8 DEF CreateJob
  <2>4. UNCHANGED <<program, backend, keyring, backups, accepted, hit>>
    BY <1>8 DEF CreateJob
  <2> QED
    BY <2>1, <2>2, <2>3, <2>4, PassTypes
<1>9. CASE ChooseBackup
  <2>1. PICK a \in backups : session' = [session EXCEPT !["source"] = a]
    BY <1>9 DEF ChooseBackup
  <2>2. session' \in [Roles -> Accounts \cup {NoOne}]
    BY <2>1
  <2> QED
    BY <1>9, <2>2 DEF ChooseBackup
<1>10. CASE Checkpoint
  <2>1. command \in {"transfer", "restore"}
    <3>1. command # "none" /\ Head(todo) = "checkpoint"
      BY <1>10 DEF Checkpoint, At, StageInv
    <3> QED
      BY <3>1, AtStage DEF WritingAt
  <2>2. session["source"] \in Accounts \cup {NoOne}
    BY DEF Roles
  <2>3. /\ Pass
        /\ work' = work \/ work' = [work EXCEPT !.transfer = session["source"],
                                                !.operation = command]
        /\ UNCHANGED <<program, backend, keyring, backups, accepted, hit>>
    BY <1>10 DEF Checkpoint
  <2> QED
    BY <2>1, <2>2, <2>3, PassTypes
<1>11. CASE Copy
  <2>1. /\ Pass
        /\ work' = work \/ work' = [work EXCEPT !.transfer = NoOne, !.job = NoOne]
        /\ UNCHANGED <<program, backend, keyring, backups, accepted, hit>>
    BY <1>11 DEF Copy
  <2> QED
    BY <2>1, PassTypes
<1>12. CASE Backup
  <2>1. /\ Pass /\ Head(todo) = "backup"
        /\ UNCHANGED <<program, backend, keyring, work, accepted, hit>>
        /\ backups' = backups \cup {session["source"]}
    BY <1>12 DEF Backup, At
  <2>2. session["source"] \in Accounts
    <3>1. command # "none"
      BY <1>12 DEF Backup, At, StageInv
    <3>2. \E m \in 1 .. Passed : Stages(command)[m] = "source"
      BY <2>1, <3>1, AtStage DEF SigningAt
    <3> QED
      BY <3>1, <3>2 DEF SavedInv, Roles
  <2> QED
    BY <2>1, <2>2, PassTypes
<1>13. CASE Enqueue
  <2>1. /\ Pass
        /\ work' = [work EXCEPT !.cleanup = session["source"]]
        /\ UNCHANGED <<program, backend, keyring, backups, accepted, hit>>
    BY <1>13 DEF Enqueue
  <2>2. session["source"] \in Accounts \cup {NoOne}
    BY DEF Roles
  <2> QED
    BY <2>1, <2>2, PassTypes
<1>14. CASE Delete
  <2>1. /\ Pass
        /\ work' = work \/ work' = [work EXCEPT !.cleanup = NoOne]
        /\ UNCHANGED <<program, backend, keyring, backups, accepted, hit>>
    BY <1>14 DEF Delete
  <2> QED
    BY <2>1, PassTypes
<1>15. ASSUME NEW r \in Roles, Forget(r) PROVE TypeInv'
  BY <1>15 DEF Forget
<1>16. ASSUME NEW r \in Roles, Revoke(r) PROVE TypeInv'
  BY <1>16 DEF Revoke
<1>17. CASE UNCHANGED vars
  BY <1>17 DEF vars
<1> QED
  BY <1>1, <1>2, <1>3, <1>4, <1>5, <1>6, <1>7, <1>8, <1>9, <1>10, <1>11, <1>12,
     <1>13, <1>14, <1>15, <1>16, <1>17 DEF Next
----------------------------------------------------------------------------
(* Where a command is, when it stays there.                                *)
LEMMA SamePlace ==
  ASSUME UNCHANGED <<program, command, todo>>
  PROVE  /\ Passed' = Passed /\ Stages(command)' = Stages(command)
         /\ Role' = Role /\ Head(todo)' = Head(todo)
<1>1. Stages(command)' = Stages(command)
  BY DEF Stages, MenuStages, CliStages
<1> QED
  BY <1>1 DEF Passed, Role

(* What is stored for the writes stays right when none is made.            *)
LEMMA NoWrite ==
  ASSUME RightAccount, UNCHANGED <<program, copied, deleted>>,
         backups \subseteq backups'
  PROVE  RightAccount'
  BY DEF RightAccount, NeverOntoItself, DeletesBackedUp

(* A role whose adapter signs in has signed in before.                     *)
LEMMA AdapterHasSession ==
  ASSUME TypeInv, StageInv, SavedInv, command # "none",
         SignsIn(Head(todo)), Head(todo) \notin Roles
  PROVE  SignedIn(Role)
<1>1. SigningAt(command, Passed + 1) /\ Head(todo) = Stages(command)[Passed + 1] /\ Passed \in Nat
  BY AtStage
<1>2. command # "restore"
  BY <1>1 DEF SigningAt, Roles
<1>3. \E m \in 1 .. Passed : Stages(command)[m] = Role
  BY <1>1 DEF SigningAt, SignsIn, Role, Roles
<1>4. session[Role] # NoOne
  BY <1>3, RoleType DEF SavedInv
<1> QED
  BY <1>2, <1>4 DEF SignedIn

(* A sign-in that moves on without a new session yet keeps everything.     *)
LEMMA SigningKeeps ==
  ASSUME TypeInv, StageInv, SavedInv, ComparedInv,
         command # "none", SignsIn(Head(todo)),
         UNCHANGED <<program, backend, command, todo, session, work, backups>>,
         \A r \in Roles : keyring'[r] \in {keyring[r], NoOne},
         step' \in {"login", "check"},
         step' = "login" /\ backend => keyring'[Role] = NoOne,
         step' = "check" =>
           /\ candidate' # NoOne
           /\ backend => keyring'[Role] \in {candidate', NoOne, "malformed"}
           /\ Head(todo) \notin Roles => candidate' = session[Role]
  PROVE  StageInv' /\ SavedInv' /\ ComparedInv'
<1>1. /\ Passed' = Passed /\ Stages(command)' = Stages(command)
      /\ Role' = Role /\ Head(todo)' = Head(todo)
  BY SamePlace
<1>2. StageInv'
  BY <1>1 DEF StageInv, SignsIn
<1>3. \A r \in Roles : SignedIn(r)' = SignedIn(r)
  BY DEF SignedIn
<1>4. SavedInv'
  <2>1. command' # "none" =>
          \A n \in 1 .. Passed' : Stages(command)'[n] \in Roles =>
            session'[Stages(command)'[n]] # NoOne
    BY <1>1 DEF SavedInv
  <2>2. backend' => \A r \in Roles : SignedIn(r)' =>
          keyring'[r] \in {session'[r], NoOne, "malformed"}
    BY <1>3 DEF SavedInv
  <2>3. step' = "login" /\ backend' => keyring'[Role'] = NoOne
    BY <1>1
  <2>4. step' = "check" =>
          /\ candidate' # NoOne
          /\ backend' => keyring'[Role'] \in {candidate', NoOne, "malformed"}
          /\ Head(todo)' \notin Roles => candidate' = session'[Role']
    BY <1>1
  <2> QED
    BY <2>1, <2>2, <2>3, <2>4 DEF SavedInv
<1>5. ComparedInv'
  BY <1>1 DEF ComparedInv
<1> QED
  BY <1>2, <1>4, <1>5

(* A session that has been established is the one the command works with.  *)
LEMMA CheckKeeps ==
  ASSUME TypeInv, StageInv, SavedInv, ComparedInv, Check
  PROVE  StageInv' /\ SavedInv' /\ ComparedInv'
<1>1. /\ command # "none" /\ SignsIn(Head(todo)) /\ step = "check"
      /\ session' = [session EXCEPT ![Role] = candidate]
      /\ todo' = Tail(todo) /\ step' = "idle"
      /\ UNCHANGED <<program, command, backend, work, backups>>
  BY DEF Check, StageInv
<1>2. /\ IsCommand(command) /\ Passed \in Nat
      /\ Head(todo) = Stages(command)[Passed + 1] /\ Len(todo) = Len(Stages(command)) - Passed
      /\ SigningAt(command, Passed + 1) /\ ComparingAt(command, Passed + 1)
  BY <1>1, AtStage
<1>3. Len(todo) # 1
  BY <1>1, <1>2, StageTable DEF SigningAt
<1>4. StageInv' /\ Passed' = Passed + 1 /\ Stages(command)' = Stages(command)
  BY <1>1, <1>3, NextStage
<1>5. /\ candidate # NoOne /\ Role \in Roles
      /\ backend => keyring[Role] \in {candidate, NoOne, "malformed"}
      /\ Head(todo) \notin Roles => candidate = session[Role]
  BY <1>1, RoleType DEF SavedInv
<1>6. session' \in [Roles -> Accounts \cup {NoOne}]
  BY <1>1, <1>5 DEF TypeInv
<1>7. Head(todo) \notin Roles => session' = session
  BY <1>1, <1>5, <1>6 DEF TypeInv
<1>8. SavedInv'
  <2>1. ASSUME NEW n \in 1 .. Passed + 1, Stages(command)[n] \in Roles
        PROVE  session'[Stages(command)[n]] # NoOne
    <3>1. CASE n = Passed + 1
      <4>1. Stages(command)[n] = Role
        BY <1>2, <2>1, <3>1 DEF Role, Roles
      <4> QED
        BY <1>1, <1>5, <4>1 DEF TypeInv
    <3>2. CASE n # Passed + 1
      <4>1. session[Stages(command)[n]] # NoOne
        BY <1>1, <1>2, <2>1, <3>2 DEF SavedInv
      <4> QED
        BY <1>1, <1>5, <2>1, <4>1 DEF TypeInv
    <3> QED
      BY <3>1, <3>2
  <2>2. ASSUME backend, NEW r \in Roles, SignedIn(r)'
        PROVE  keyring'[r] \in {session'[r], NoOne, "malformed"}
    <3>1. keyring' = keyring \/ keyring' = [keyring EXCEPT ![Role] = candidate]
      BY DEF Check
    <3>2. CASE r = Role
      <4>1. session'[r] = candidate
        BY <1>1, <3>2 DEF TypeInv
      <4>2. keyring'[r] \in {candidate, NoOne, "malformed"}
        BY <1>5, <2>2, <3>1, <3>2 DEF TypeInv
      <4> QED
        BY <4>1, <4>2
    <3>3. CASE r # Role
      <4>1. session'[r] = session[r] /\ keyring'[r] = keyring[r]
        BY <1>1, <3>1, <3>3 DEF TypeInv
      <4>2. SignedIn(r)
        BY <1>1, <2>2, <4>1 DEF SignedIn
      <4> QED
        BY <2>2, <4>1, <4>2 DEF SavedInv
    <3> QED
      BY <3>2, <3>3
  <2> QED
    BY <1>1, <1>4, <2>1, <2>2 DEF SavedInv
<1>9. ComparedInv'
  <2>1. CASE Head(todo) \in Roles
    BY <1>1, <1>2, <1>4, <2>1 DEF SigningAt, ComparedInv
  <2>2. CASE Head(todo) \notin Roles
    <3>1. Head(todo) \notin {"compare", "create_job", "compare_checkpoint", "backup"}
      BY <1>1 DEF SignsIn
    <3>2. /\ command = "transfer" /\ program = "menu" => Passed # 2
          /\ command = "transfer" /\ program = "cli" => Passed # 4
          /\ command = "resume_transfer" /\ program = "menu" => Passed # 1
          /\ command = "cleanup" => Passed # 1
      BY <1>2, <3>1 DEF ComparingAt
    <3> QED
      BY <1>1, <1>2, <1>4, <1>7, <2>2, <3>2 DEF ComparedInv
  <2> QED
    BY <2>1, <2>2
<1> QED
  BY <1>4, <1>8, <1>9

(* The library of a backup file becomes the source of a restore.           *)
LEMMA ChooseKeeps ==
  ASSUME TypeInv, StageInv, SavedInv, ComparedInv, ChooseBackup
  PROVE  StageInv' /\ SavedInv' /\ ComparedInv'
<1>1. /\ command # "none" /\ Head(todo) = "choose" /\ step = "idle"
      /\ todo' = Tail(todo) /\ step' = "idle"
      /\ UNCHANGED <<program, command, backend, keyring, work, backups>>
  BY DEF ChooseBackup, At, StageInv, durable, signing
<1>2. PICK a \in backups : session' = [session EXCEPT !["source"] = a]
  BY DEF ChooseBackup
<1>3. /\ Passed \in Nat /\ command = "restore"
      /\ Head(todo) = Stages(command)[Passed + 1] /\ Len(todo) # 1
  BY <1>1, AtStage, StageTable DEF SigningAt
<1>4. StageInv' /\ Passed' = Passed + 1 /\ Stages(command)' = Stages(command)
  BY <1>1, <1>3, NextStage
<1>5. a # NoOne
  BY DEF TypeInv
<1>6. SavedInv'
  <2>1. ASSUME NEW n \in 1 .. Passed + 1, Stages(command)[n] \in Roles
        PROVE  session'[Stages(command)[n]] # NoOne
    <3>1. n # Passed + 1
      BY <1>1, <1>3, <2>1 DEF Roles
    <3>2. session[Stages(command)[n]] # NoOne
      BY <1>1, <1>3, <2>1, <3>1 DEF SavedInv
    <3> QED
      BY <1>2, <1>5, <2>1, <3>2 DEF TypeInv
  <2>2. ASSUME backend, NEW r \in Roles, SignedIn(r)'
        PROVE  keyring'[r] \in {session'[r], NoOne, "malformed"}
    <3>1. r = "destination"
      BY <1>1, <1>3, <2>2 DEF SignedIn
    <3>2. session'[r] = session[r]
      BY <1>2, <3>1 DEF TypeInv
    <3>3. SignedIn(r)
      BY <1>1, <2>2, <3>1, <3>2 DEF SignedIn
    <3> QED
      BY <1>1, <2>2, <3>2, <3>3 DEF SavedInv
  <2> QED
    BY <1>1, <1>4, <2>1, <2>2 DEF SavedInv
<1>7. ComparedInv'
  BY <1>1, <1>3 DEF ComparedInv
<1> QED
  BY <1>4, <1>6, <1>7

(* A command that begins has passed nothing.                               *)
LEMMA GiveKeeps ==
  ASSUME TypeInv, StageInv, SavedInv, NEW c \in Offered, Give(c)
  PROVE  StageInv' /\ SavedInv' /\ ComparedInv'
<1>1. /\ command' = c /\ todo' = Stages(c)
      /\ session = [r \in Roles |-> NoOne] /\ step = "idle"
      /\ UNCHANGED <<program, session, step>>
  BY DEF Give, StageInv, signing
<1>2. IsCommand(c)
  BY DEF IsCommand, Offered, Commands, TypeInv
<1>3. Stages(c) \in Seq(StageNames) /\ Len(Stages(c)) \in Nat \ {0}
  BY <1>2, StageTable
<1>4. Stages(command)' = Stages(c)
  BY <1>1 DEF Stages, MenuStages, CliStages
<1>5. Passed' = 0
  BY <1>1, <1>3, <1>4 DEF Passed
<1>6. c # "none"
  BY <1>2 DEF IsCommand, Commands
<1>7. StageInv'
  BY <1>1, <1>2, <1>3, <1>4, <1>5, <1>6 DEF StageInv, IsCommand
<1>8. SavedInv'
  <2>1. \A r \in Roles : ~SignedIn(r)'
    BY <1>1 DEF SignedIn
  <2> QED
    BY <1>1, <1>5, <2>1 DEF SavedInv
<1>9. ComparedInv'
  BY <1>5 DEF ComparedInv
<1> QED
  BY <1>7, <1>8, <1>9

(* A copy goes where it may: its accounts were compared, or it restores a  *)
(* backup, or it is resumed from the command line.                         *)
LEMMA CopyIsRight ==
  ASSUME TypeInv, StageInv, ComparedInv, RightAccount, Copy
  PROVE  RightAccount'
<1>1. /\ command # "none" /\ Head(todo) = "copy"
      /\ UNCHANGED <<program, deleted, backups>>
      /\ copied' = copied \cup {[from |-> Origin, to |-> session["destination"],
                                 by |-> command, of |-> Operation]}
  BY DEF Copy, At, StageInv
<1>2. /\ Passed \in Nat
      /\ \/ command = "restore" /\ program = "menu"
         \/ command = "resume_transfer" /\ program = "cli"
         \/ command = "transfer" /\ program = "menu" /\ Passed >= 3
         \/ command = "transfer" /\ program = "cli" /\ Passed >= 5
         \/ command = "resume_transfer" /\ program = "menu" /\ Passed >= 2
  BY <1>1, AtStage DEF WritingAt
<1>3. Origin = session["destination"] =>
        \/ Operation = "restore"
        \/ program = "cli" /\ command = "resume_transfer"
  BY <1>2 DEF ComparedInv, Origin, Operation
<1>4. ASSUME NEW d \in copied', d.from = d.to
      PROVE  d.of = "restore" \/ (program' = "cli" /\ d.by = "resume_transfer")
  <2>1. CASE d \in copied
    BY <1>1, <1>4, <2>1 DEF RightAccount, NeverOntoItself
  <2>2. CASE d \notin copied
    BY <1>1, <1>3, <1>4, <2>2
  <2> QED
    BY <2>1, <2>2
<1> QED
  BY <1>1, <1>4 DEF RightAccount, NeverOntoItself, DeletesBackedUp

(* A cleanup deletes after its backup.                                     *)
LEMMA DeleteIsRight ==
  ASSUME TypeInv, StageInv, ComparedInv, RightAccount, Delete
  PROVE  RightAccount'
<1>1. /\ command # "none" /\ Head(todo) = "delete"
      /\ UNCHANGED <<program, copied, backups>>
      /\ deleted' = deleted \cup {[account |-> session["source"], by |-> command]}
  BY DEF Delete, At, StageInv
<1>2. command = "resume_cleanup" \/ (command = "cleanup" /\ Passed >= 2)
  BY <1>1, AtStage DEF WritingAt
<1>3. command # "resume_cleanup" => session["source"] \in backups
  BY <1>2 DEF ComparedInv
<1> QED
  BY <1>1, <1>3 DEF RightAccount, NeverOntoItself, DeletesBackedUp

(* Init establishes the invariant.                                         *)
LEMMA InvInit == Init => IInv
<1> SUFFICES ASSUME Init PROVE IInv
  OBVIOUS
<1>1. TypeInv
  BY DEF Init, TypeInv, NoWork
<1>2. StageInv /\ SavedInv /\ ComparedInv
  BY DEF Init, StageInv, SavedInv, ComparedInv, SignedIn
<1>3. RightAccount
  BY DEF Init, RightAccount, NeverOntoItself, DeletesBackedUp
<1> QED
  BY <1>1, <1>2, <1>3 DEF IInv

(* Every step preserves it.                                                *)
LEMMA InvStep == IInv /\ [Next]_vars => IInv'
<1> SUFFICES ASSUME IInv, [Next]_vars PROVE IInv'
  OBVIOUS
<1> USE DEF IInv
<1>1. TypeInv'
  BY TypeStep
<1>2. ASSUME NEW c \in Offered, Give(c) PROVE IInv'
  BY <1>1, <1>2, GiveKeeps, NoWrite DEF Give, effects, durable
<1>3. CASE LoadNothing
  <2>1. /\ command # "none" /\ SignsIn(Head(todo)) /\ step' = "login"
        /\ backend => Forgotten
        /\ ~backend => keyring' = keyring
        /\ UNCHANGED <<program, backend, command, todo, session, work, backups, copied, deleted>>
    BY <1>3 DEF LoadNothing, StageInv, effects
  <2>2. /\ \A r \in Roles : keyring'[r] \in {keyring[r], NoOne}
        /\ backend => keyring'[Role] = NoOne
    BY <2>1, RoleType DEF Forgotten, TypeInv
  <2>3. StageInv' /\ SavedInv' /\ ComparedInv'
    BY <2>1, <2>2, SigningKeeps
  <2> QED
    BY <1>1, <2>1, <2>3, NoWrite
<1>4. CASE Restore
  <2>1. /\ command # "none" /\ SignsIn(Head(todo)) /\ backend
        /\ keyring[Role] \in Accounts
        /\ UNCHANGED <<program, backend, command, todo, session, work, backups, copied, deleted>>
    BY <1>4 DEF Restore, StageInv, effects
  <2>2. \/ step' = "check" /\ candidate' = keyring[Role] /\ keyring' = keyring
        \/ step' = "login" /\ Forgotten
    BY <1>4 DEF Restore
  <2>3. ASSUME Head(todo) \notin Roles PROVE keyring[Role] = session[Role]
    BY <2>1, <2>3, AdapterHasSession, RoleType DEF SavedInv
  <2>4. CASE step' = "check" /\ candidate' = keyring[Role] /\ keyring' = keyring
    BY <2>1, <2>3, <2>4, SigningKeeps, <1>1, NoWrite
  <2>5. CASE step' = "login" /\ Forgotten
    <3>1. /\ \A r \in Roles : keyring'[r] \in {keyring[r], NoOne}
          /\ keyring'[Role] = NoOne
      BY <2>5, RoleType DEF Forgotten, TypeInv
    <3> QED
      BY <2>1, <2>5, <3>1, SigningKeeps, <1>1, NoWrite
  <2> QED
    BY <2>2, <2>4, <2>5
<1>5. CASE Login
  <2>1. /\ command # "none" /\ SignsIn(Head(todo)) /\ step = "login"
        /\ Head(todo) \in Roles /\ step' = "check" /\ candidate' \in Accounts
        /\ UNCHANGED <<program, backend, keyring, command, todo, session, work, backups, copied, deleted>>
    BY <1>5 DEF Login, StageInv, ShowsUrl, effects, durable
  <2>2. backend => keyring[Role] = NoOne
    BY <2>1 DEF SavedInv
  <2> QED
    BY <2>1, <2>2, SigningKeeps, <1>1, NoWrite
<1>6. CASE LoginFails \/ CheckFails \/ Stop \/ Decline
  <2>1. End /\ UNCHANGED <<program, copied, deleted, backups>>
    BY <1>6 DEF LoginFails, CheckFails, Stop, Decline, effects, durable
  <2> QED
    BY <2>1, EndKeeps, <1>1, NoWrite
<1>7. CASE Check
  <2>1. UNCHANGED <<program, copied, deleted, backups>>
    BY <1>7 DEF Check, effects
  <2> QED
    BY <1>7, <2>1, CheckKeeps, <1>1, NoWrite
<1>8. CASE RecordRow
  <2>1. /\ command # "none" /\ step = "idle" /\ Head(todo) = "row" /\ Pass
        /\ UNCHANGED <<program, backend, keyring, work, backups, copied, deleted>>
    BY <1>8 DEF RecordRow, At, StageInv, effects
  <2> QED
    BY <2>1, PassKeeps, <1>1, NoWrite DEF Roles
<1>9. CASE Compare
  <2>1. /\ command # "none" /\ step = "idle" /\ Head(todo) = "compare"
        /\ UNCHANGED <<program, backend, keyring, work, backups, copied, deleted>>
    BY <1>9 DEF Compare, At, StageInv, effects, durable
  <2>2. \/ End
        \/ Pass /\ session["source"] # session["destination"]
    BY <1>9 DEF Compare, Refuse, Same
  <2>3. StageInv' /\ SavedInv' /\ ComparedInv'
    BY <2>1, <2>2, PassKeeps, EndKeeps DEF Roles
  <2> QED
    BY <2>1, <2>3, <1>1, NoWrite
<1>10. CASE CreateJob
  <2>1. /\ command # "none" /\ step = "idle" /\ Head(todo) = "create_job"
        /\ UNCHANGED <<program, backend, keyring, backups, copied, deleted>>
    BY <1>10 DEF CreateJob, At, StageInv, effects
  <2>2. \/ End
        \/ Pass /\ session["source"] # session["destination"]
    BY <1>10 DEF CreateJob, Refuse, Same
  <2>3. command = "transfer"
    BY <2>1, AtStage DEF ComparingAt
  <2>4. StageInv' /\ SavedInv' /\ ComparedInv'
    BY <2>1, <2>2, <2>3, PassKeeps, EndKeeps DEF Roles
  <2> QED
    BY <2>1, <2>4, <1>1, NoWrite
<1>11. CASE CompareCheckpoint
  <2>1. /\ command # "none" /\ step = "idle" /\ Head(todo) = "compare_checkpoint"
        /\ UNCHANGED <<program, backend, keyring, work, backups, copied, deleted>>
    BY <1>11 DEF CompareCheckpoint, At, StageInv, effects, durable
  <2>2. \/ End
        \/ Pass /\ (work.operation # "transfer" \/ work.transfer # session["destination"])
    BY <1>11 DEF CompareCheckpoint, Refuse, Same
  <2>3. work.operation \in {"transfer", "restore"}
    BY DEF TypeInv
  <2>4. StageInv' /\ SavedInv' /\ ComparedInv'
    BY <2>1, <2>2, <2>3, PassKeeps, EndKeeps DEF Roles
  <2> QED
    BY <2>1, <2>4, <1>1, NoWrite
<1>12. CASE ChooseBackup
  <2>1. UNCHANGED <<program, copied, deleted, backups>>
    BY <1>12 DEF ChooseBackup, effects, durable
  <2> QED
    BY <1>12, <2>1, ChooseKeeps, <1>1, NoWrite
<1>13. CASE Checkpoint
  <2>1. /\ command # "none" /\ step = "idle" /\ Head(todo) = "checkpoint" /\ Pass
        /\ UNCHANGED <<program, backend, keyring, backups, copied, deleted>>
    BY <1>13 DEF Checkpoint, At, StageInv, effects
  <2>2. command \in {"transfer", "restore"}
    BY <2>1, AtStage DEF WritingAt
  <2>3. StageInv' /\ SavedInv' /\ ComparedInv'
    BY <2>1, <2>2, PassKeeps DEF Roles
  <2> QED
    BY <2>1, <2>3, <1>1, NoWrite
<1>14. CASE Copy
  <2>1. /\ command # "none" /\ step = "idle" /\ Head(todo) = "copy" /\ Pass
        /\ UNCHANGED <<program, backend, keyring, backups>>
    BY <1>14 DEF Copy, At, StageInv
  <2>2. command' = "none"
    <3>1. Len(todo) = 1
      BY <2>1, AtStage DEF WritingAt
    <3> QED
      BY <2>1, <3>1 DEF Pass, End
  <2>3. StageInv' /\ SavedInv' /\ ComparedInv'
    BY <2>1, <2>2, PassKeeps DEF Roles
  <2> QED
    BY <1>14, <2>3, <1>1, CopyIsRight
<1>15. CASE Backup
  <2>1. /\ command # "none" /\ step = "idle" /\ Head(todo) = "backup" /\ Pass
        /\ UNCHANGED <<program, backend, keyring, work, copied, deleted>>
        /\ backups \subseteq backups' /\ session["source"] \in backups'
    BY <1>15 DEF Backup, At, StageInv, effects
  <2>2. StageInv' /\ SavedInv' /\ ComparedInv'
    BY <2>1, PassKeeps DEF Roles
  <2> QED
    BY <2>1, <2>2, <1>1, NoWrite
<1>16. CASE Enqueue
  <2>1. /\ command # "none" /\ step = "idle" /\ Head(todo) = "enqueue" /\ Pass
        /\ UNCHANGED <<program, backend, keyring, backups, copied, deleted>>
    BY <1>16 DEF Enqueue, At, StageInv, effects
  <2>2. command = "cleanup"
    BY <2>1, AtStage DEF WritingAt
  <2>3. StageInv' /\ SavedInv' /\ ComparedInv'
    BY <2>1, <2>2, PassKeeps DEF Roles
  <2> QED
    BY <2>1, <2>3, <1>1, NoWrite
<1>17. CASE Delete
  <2>1. /\ command # "none" /\ step = "idle" /\ Head(todo) = "delete" /\ Pass
        /\ UNCHANGED <<program, backend, keyring, backups>>
    BY <1>17 DEF Delete, At, StageInv
  <2>2. command # "resume_transfer"
    BY <2>1, AtStage DEF WritingAt
  <2>3. StageInv' /\ SavedInv' /\ ComparedInv'
    BY <2>1, <2>2, PassKeeps DEF Roles
  <2> QED
    BY <1>17, <2>3, <1>1, DeleteIsRight
<1>18. ASSUME NEW r \in Roles, Forget(r) \/ Revoke(r) PROVE IInv'
  <2>1. /\ UNCHANGED <<program, backend, command, todo, step, candidate, session,
                      work, backups, copied, deleted>>
        /\ \A q \in Roles : keyring'[q] \in {keyring[q], NoOne, "malformed"}
    BY <1>18 DEF Forget, Revoke, TypeInv, signing, effects
  <2>2. backend /\ step = "login" => keyring'[Role] = NoOne
    <3>1. CASE Forget(r)
      BY <3>1 DEF Forget, StageInv
    <3>2. CASE Revoke(r)
      <4> SUFFICES ASSUME backend, step = "login" PROVE keyring'[Role] = NoOne
        OBVIOUS
      <4>1. keyring[Role] = NoOne /\ keyring[r] # NoOne
        BY <3>2 DEF SavedInv, Revoke
      <4>2. keyring' = keyring \/ keyring' = [keyring EXCEPT ![r] = "malformed"]
        BY <3>2 DEF Revoke
      <4> QED
        BY <4>1, <4>2, RoleType DEF TypeInv
    <3> QED
      BY <1>18, <3>1, <3>2
  <2>3. /\ Passed' = Passed /\ Stages(command)' = Stages(command)
        /\ Role' = Role /\ Head(todo)' = Head(todo)
    BY <2>1, SamePlace
  <2>4. StageInv'
    BY <2>1, <2>3 DEF StageInv, SignsIn
  <2>5. SavedInv'
    <3>1. \A q \in Roles : SignedIn(q)' = SignedIn(q)
      BY <2>1 DEF SignedIn
    <3>2. backend => \A q \in Roles : SignedIn(q)' =>
            keyring'[q] \in {session'[q], NoOne, "malformed"}
      BY <2>1, <3>1 DEF SavedInv
    <3>3. step = "check" =>
            /\ candidate # NoOne
            /\ backend => keyring'[Role] \in {candidate, NoOne, "malformed"}
            /\ Head(todo) \notin Roles => candidate = session[Role]
      BY <2>1, RoleType DEF SavedInv
    <3>4. command # "none" =>
            \A n \in 1 .. Passed : Stages(command)[n] \in Roles =>
              session[Stages(command)[n]] # NoOne
      BY DEF SavedInv
    <3> QED
      BY <2>1, <2>2, <2>3, <3>2, <3>3, <3>4 DEF SavedInv
  <2>6. ComparedInv'
    BY <2>1, <2>3 DEF ComparedInv
  <2> QED
    BY <2>1, <2>4, <2>5, <2>6, <1>1, NoWrite
<1>19. CASE UNCHANGED vars
  <2>1. UNCHANGED <<program, backend, command, todo, step, candidate, session,
                    keyring, work, backups, copied, deleted>>
    BY <1>19 DEF vars, durable, effects, signing
  <2>2. /\ Passed' = Passed /\ Stages(command)' = Stages(command)
        /\ Role' = Role /\ Head(todo)' = Head(todo)
    BY <2>1, SamePlace
  <2>3. \A q \in Roles : SignedIn(q)' = SignedIn(q)
    BY <2>1 DEF SignedIn
  <2>4. StageInv'
    BY <2>1, <2>2 DEF StageInv, SignsIn
  <2>5. SavedInv'
    BY <2>1, <2>2, <2>3 DEF SavedInv
  <2>6. ComparedInv'
    BY <2>1, <2>2 DEF ComparedInv
  <2> QED
    BY <2>1, <2>4, <2>5, <2>6, <1>1, NoWrite
<1> QED
  BY <1>2, <1>3, <1>4, <1>5, <1>6, <1>7, <1>8, <1>9, <1>10, <1>11, <1>12, <1>13,
     <1>14, <1>15, <1>16, <1>17, <1>18, <1>19 DEF Next

(* The types of the session state hold in every reachable state.           *)
THEOREM SignInTypes == Spec => []TypeInv
<1>1. IInv => TypeInv
  BY DEF IInv
<1> QED
  BY <1>1, InvInit, InvStep, PTL DEF Spec

(* A copy that a transfer command makes never goes onto the account it     *)
(* came from, and a cleanup that was not resumed has a backup of what it   *)
(* deletes, whatever sessions are saved, revoked, damaged or forgotten     *)
(* between the sign-ins of one command.  Nothing is said of a restore and  *)
(* of a job that the command line resumes, which compare no accounts.      *)
THEOREM SignInRightAccount == Spec => []RightAccount
<1>1. IInv => RightAccount
  BY DEF IInv
<1> QED
  BY <1>1, InvInit, InvStep, PTL DEF Spec
----------------------------------------------------------------------------
(* A command without a failure can restore what it has saved.              *)
LEMMA RestorableStep ==
  ASSUME TakesUrl, IInv, RestorableInv, [Next]_vars
  PROVE  RestorableInv'
<1> SUFFICES ASSUME command' # "none", ~hit'
             PROVE  /\ backend' => \A r \in Roles : SignedIn(r)' =>
                          keyring'[r] = session'[r] /\ accepted'[r]
                    /\ step' = "login" => Head(todo)' \in Roles
  BY DEF RestorableInv
<1> USE RoleType
<1> USE DEF IInv, effects, durable, signing, bounds
<1>1. CASE \E c \in Offered : Give(c)
  <2>1. /\ session' = [r \in Roles |-> NoOne] /\ step' = "idle"
    BY <1>1 DEF Give, StageInv
  <2>2. \A r \in Roles : ~SignedIn(r)'
    BY <2>1 DEF SignedIn
  <2> QED
    BY <2>1, <2>2
<1>2. CASE LoadNothing
  <2>1. /\ command # "none" /\ ~hit /\ backend /\ SignsIn(Head(todo))
        /\ keyring[Role] \in {NoOne, "malformed"}
        /\ keyring' = [keyring EXCEPT ![Role] = NoOne]
        /\ UNCHANGED <<command, backend, session, accepted, todo>>
    BY <1>2 DEF LoadNothing, Forgotten
  <2>2. \A r \in Roles : SignedIn(r) => keyring[r] = session[r] /\ accepted[r]
    BY <2>1 DEF RestorableInv
  <2>3. ~SignedIn(Role)
    BY <2>1, <2>2 DEF SignedIn, TypeInv
  <2>4. Head(todo) \in Roles
    BY <2>1, <2>3, AdapterHasSession
  <2>5. ASSUME NEW r \in Roles, SignedIn(r)'
        PROVE  keyring'[r] = session'[r] /\ accepted'[r]
    <3>1. SignedIn(r) /\ r # Role
      BY <2>1, <2>3, <2>5 DEF SignedIn
    <3> QED
      BY <2>1, <2>2, <3>1 DEF TypeInv
  <2> QED
    BY <2>1, <2>4, <2>5
<1>3. CASE Restore
  <2>1. /\ command # "none" /\ ~hit /\ backend /\ SignsIn(Head(todo))
        /\ \/ step' = "check" /\ keyring' = keyring
           \/ /\ ~accepted[Role] /\ step' = "login"
              /\ keyring' = [keyring EXCEPT ![Role] = NoOne]
        /\ UNCHANGED <<command, backend, session, accepted, todo>>
    BY <1>3 DEF Restore, Forgotten, Succeeds, Fails, StageInv
  <2>2. \A r \in Roles : SignedIn(r) => keyring[r] = session[r] /\ accepted[r]
    BY <2>1 DEF RestorableInv
  <2>3. ASSUME step' = "login" PROVE ~SignedIn(Role) /\ Head(todo) \in Roles
    <3>1. ~SignedIn(Role)
      BY <2>1, <2>2, <2>3
    <3> QED
      BY <2>1, <3>1, AdapterHasSession
  <2>4. ASSUME NEW r \in Roles, SignedIn(r)'
        PROVE  keyring'[r] = session'[r] /\ accepted'[r]
    <3>1. SignedIn(r)
      BY <2>1, <2>4 DEF SignedIn
    <3>2. keyring'[r] = keyring[r]
      BY <2>1, <2>3, <3>1 DEF TypeInv
    <3> QED
      BY <2>1, <2>2, <3>1, <3>2
  <2> QED
    BY <2>1, <2>3, <2>4
<1>4. CASE Login
  <2>1. /\ command # "none" /\ ~hit /\ step' = "check"
        /\ UNCHANGED <<command, backend, session, accepted, keyring, todo>>
    BY <1>4 DEF Login, Succeeds, StageInv
  <2> QED
    BY <2>1 DEF RestorableInv, SignedIn
<1>5. CASE LoginFails \/ CheckFails \/ Stop \/ Decline
  BY <1>5 DEF LoginFails, CheckFails, Stop, Decline, End
<1>6. CASE Check
  <2>1. /\ command # "none" /\ ~hit /\ step' = "idle"
        /\ session' = [session EXCEPT ![Role] = candidate]
        /\ UNCHANGED <<command, backend>>
        /\ backend => /\ keyring' = [keyring EXCEPT ![Role] = candidate]
                      /\ accepted' = [accepted EXCEPT ![Role] = TRUE]
    BY <1>6 DEF Check, Succeeds, Fails, StageInv
  <2>2. ASSUME backend, NEW r \in Roles, SignedIn(r)'
        PROVE  keyring'[r] = session'[r] /\ accepted'[r]
    <3>1. CASE r = Role
      BY <2>1, <2>2, <3>1 DEF TypeInv
    <3>2. CASE r # Role
      <4>1. session'[r] = session[r] /\ keyring'[r] = keyring[r] /\ accepted'[r] = accepted[r]
        BY <2>1, <2>2, <3>2 DEF TypeInv
      <4>2. SignedIn(r)
        BY <2>1, <2>2, <4>1 DEF SignedIn
      <4> QED
        BY <2>1, <2>2, <4>1, <4>2 DEF RestorableInv
    <3> QED
      BY <3>1, <3>2
  <2> QED
    BY <2>1, <2>2
<1>7. CASE ChooseBackup
  <2>1. /\ command # "none" /\ ~hit /\ Head(todo) = "choose" /\ step' = "idle"
        /\ UNCHANGED <<command, backend, keyring, accepted>>
    BY <1>7 DEF ChooseBackup, At, StageInv
  <2>2. command = "restore"
    BY <2>1, AtStage DEF SigningAt
  <2>3. session'["destination"] = session["destination"]
    BY <1>7 DEF ChooseBackup, TypeInv
  <2>4. \A r \in Roles : SignedIn(r)' => r = "destination" /\ SignedIn(r)
    BY <2>1, <2>2, <2>3 DEF SignedIn
  <2> QED
    BY <2>1, <2>3, <2>4 DEF RestorableInv
<1>8. CASE \/ RecordRow \/ Compare \/ CreateJob \/ CompareCheckpoint
           \/ Checkpoint \/ Copy \/ Backup \/ Enqueue \/ Delete
  <2>1. /\ Pass \/ End
        /\ command # "none" /\ step = "idle" /\ hit' = hit
        /\ UNCHANGED <<backend, keyring, accepted>>
    BY <1>8 DEF RecordRow, Compare, CreateJob, CompareCheckpoint, Checkpoint, Copy,
                Backup, Enqueue, Delete, Refuse, At, StageInv
  <2>2. UNCHANGED <<command, step, session>>
    BY <2>1 DEF Pass, End
  <2> QED
    BY <2>1, <2>2 DEF RestorableInv, SignedIn
<1>9. CASE \E r \in Roles : Forget(r) \/ Revoke(r)
  BY <1>9 DEF Forget, Revoke, Fails
<1>10. CASE UNCHANGED vars
  BY <1>10 DEF vars, RestorableInv, SignedIn
<1> QED
  BY <1>1, <1>2, <1>3, <1>4, <1>5, <1>6, <1>7, <1>8, <1>9, <1>10 DEF Next

(* A command that ends in a sign-in was stopped or something failed.       *)
LEMMA RefusalStep ==
  ASSUME TakesUrl, IInv, RestorableInv, [Next]_vars,
         command # "none", command' = "none", stops' = stops, SignsIn(Head(todo))
  PROVE  hit'
<1> USE DEF IInv, bounds
<1>1. CASE LoginFails
  <2>1. CASE ShowsUrl
    BY <1>1, <2>1 DEF LoginFails, Fails
  <2>2. CASE ~ShowsUrl
    <3>1. step = "login" /\ hit' = hit /\ Head(todo) \notin Roles
      BY <1>1, <2>2 DEF LoginFails, Succeeds, ShowsUrl
    <3> QED
      BY <3>1 DEF RestorableInv, TypeInv
  <2> QED
    BY <2>1, <2>2
<1>2. CASE CheckFails
  BY <1>2 DEF CheckFails, Fails
<1>3. CASE Stop
  BY <1>3 DEF Stop, TypeInv
<1>4. CASE \E c \in Offered : Give(c)
  BY <1>4 DEF Give
<1>5. CASE LoadNothing \/ Restore \/ Login \/ Check \/ ChooseBackup
  BY <1>5 DEF LoadNothing, Restore, Login, Check, ChooseBackup
<1>6. CASE \/ RecordRow \/ Compare \/ CreateJob \/ CompareCheckpoint
           \/ Checkpoint \/ Copy \/ Backup \/ Enqueue \/ Delete \/ Decline
  <2>1. ~SignsIn(Head(todo))
    BY <1>6 DEF RecordRow, Compare, CreateJob, CompareCheckpoint, Checkpoint, Copy,
                Backup, Enqueue, Delete, Decline, At, SignsIn
  <2> QED
    BY <2>1
<1>7. CASE \E r \in Roles : Forget(r) \/ Revoke(r)
  BY <1>7 DEF Forget, Revoke
<1>8. CASE UNCHANGED vars
  BY <1>8 DEF vars
<1> QED
  BY <1>1, <1>2, <1>3, <1>4, <1>5, <1>6, <1>7, <1>8 DEF Next

(* Where the interface shows the URL to open, a sign-in is refused only    *)
(* when something failed during the command or no session can be saved:    *)
(* a saved session that is expired or damaged leads to the browser.        *)
THEOREM SignInRefusals ==
  ASSUME TakesUrl
  PROVE  Spec => RefusedForCause
<1>1. Init => RestorableInv
  BY DEF Init, RestorableInv
<1>2. IInv /\ RestorableInv /\ [Next]_vars => RestorableInv'
  BY RestorableStep
<1>3. IInv /\ RestorableInv /\ [Next]_vars =>
        [command # "none" /\ command' = "none" /\ stops' = stops
           /\ SignsIn(Head(todo)) => hit']_vars
  BY RefusalStep
<1> QED
  BY <1>1, <1>2, <1>3, InvInit, InvStep, PTL DEF Spec, RefusedForCause

(***************************************************************************)
(* Two lists compared                                                      *)
(***************************************************************************)
(* How often something occurs in a list.                                   *)
LEMMA TimesCounts ==
  ASSUME NEW T, NEW s \in Seq(T), NEW x
  PROVE  /\ Times(s, x) \in Nat
         /\ Times(s, x) > 0 <=> x \in ToSet(s)
<1> DEFINE K == {k \in DOMAIN s : s[k] = x}
<1>1. Times(s, x) = Cardinality(K)
  BY DEF Times
<1>2. IsFiniteSet(DOMAIN s) /\ K \in SUBSET DOMAIN s
  <2>1. DOMAIN s = 1 .. Len(s) /\ Len(s) \in Int
    OBVIOUS
  <2> QED
    BY <2>1, FS_Interval
<1>3. x \in ToSet(s) <=> K # {}
  BY DEF ToSet
<1> HIDE DEF K
<1>4. IsFiniteSet(K) /\ Cardinality(K) \in Nat
  BY <1>2, FS_Subset, FS_CardinalityType
<1>5. Cardinality(K) = 0 <=> K = {}
  BY <1>4, FS_EmptySet
<1> QED
  BY <1>1, <1>3, <1>4, <1>5

(* Nothing is in excess of itself, and lists of the same length without a  *)
(* mismatch are equal.                                                     *)
LEMMA SameSequenceIsEquality ==
  ASSUME NEW T, NEW s \in Seq(T), NEW t \in Seq(T)
  PROVE  SameSequence(s, t) <=> s = t
<1>1. ASSUME SameSequence(s, t) PROVE s = t
  <2>1. Len(s) = Len(t) /\ Mismatches(s, t) = {}
    BY <1>1 DEF SameSequence, SameMembers
  <2>2. /\ Len(s) \in Nat /\ DOMAIN s = 1 .. Len(s) /\ DOMAIN t = 1 .. Len(s)
        /\ s = [k \in DOMAIN s |-> s[k]] /\ t = [k \in DOMAIN t |-> t[k]]
    BY <2>1
  <2>3. \A k \in DOMAIN s : s[k] = t[k]
    BY <2>1, <2>2 DEF Mismatches
  <2> QED
    BY <2>2, <2>3
<1>2. SameSequence(s, s)
  <2>1. Excess(s, s) = {}
    <3>1. \A x : ~(Times(s, x) > Times(s, x))
      BY TimesCounts
    <3> QED
      BY <3>1 DEF Excess
  <2>2. Mismatches(s, s) = {}
    BY DEF Mismatches
  <2> QED
    BY <2>1, <2>2 DEF SameSequence, SameMembers
<1> QED
  BY <1>1, <1>2

(* A list that has no more of anything than the elements of a set, each    *)
(* once, holds elements of that set.                                       *)
LEMMA SameMembersAreThere ==
  ASSUME NEW T, NEW s \in Seq(T), NEW S, IsFiniteSet(S),
         SameMembers(s, SetToSeq(S))
  PROVE  ToSet(s) \subseteq S
<1> DEFINE n == Cardinality(S)
           t == SetToSeq(S)
<1>1. t \in [1 .. n -> S] /\ n \in Nat
  <2>1. IsFiniteSet(S) /\ Cardinality(S) = n
    OBVIOUS
  <2>2. n \in Nat /\ ExistsBijection(1 .. n, S)
    BY <2>1, FS_CardinalityType
  <2>3. \E f \in [1 .. n -> S] : IsInjective(f)
    BY <2>2 DEF ExistsBijection, Bijection, Injection, IsInjective
  <2>4. t = CHOOSE f \in [1 .. n -> S] : IsInjective(f)
    BY <2>1 DEF SetToSeq
  <2> HIDE DEF n, t
  <2> QED
    BY <2>2, <2>3, <2>4
<1>2. SameMembers(s, t)
  OBVIOUS
<1> HIDE DEF n, t
<1>3. t \in Seq(S)
  BY <1>1
<1>4. \A x \in ToSet(s) : ~(Times(s, x) > Times(t, x))
  BY <1>2 DEF SameMembers, Excess
<1>5. ASSUME NEW x \in ToSet(s) PROVE x \in S
  <2>1. Times(s, x) \in Nat /\ Times(s, x) > 0 /\ Times(t, x) \in Nat
    BY <1>3, <1>5, TimesCounts
  <2>2. Times(t, x) > 0
    BY <1>4, <1>5, <2>1
  <2>3. x \in ToSet(t)
    BY <1>3, <2>2, TimesCounts
  <2> QED
    BY <1>1, <2>3 DEF ToSet
<1> QED
  BY <1>5

(***************************************************************************)
(* Scores                                                                  *)
(***************************************************************************)
(* What the data gives for two tracks.                                     *)
LEMMA TrackFacts ==
  ASSUME NEW x \in DOMAIN Track, NEW y \in DOMAIN Track
  PROVE  /\ Similarity[<<Track[x].base, Track[y].base>>] \in Ratios
         /\ Similarity[<<Track[x].album, Track[y].album>>] \in Ratios
         /\ \A a \in Track[x].artists, b \in Track[y].artists :
              Similarity[<<a, b>>] \in Ratios
         /\ Track[x].seconds \in Nat \cup {None} /\ Track[y].seconds \in Nat \cup {None}
         /\ IsFiniteSet(Track[x].artists \cup Track[x].featured)
         /\ IsFiniteSet(Track[y].artists \cup Track[y].featured)
<1>1. ASSUME NEW z \in DOMAIN Track
      PROVE  /\ Track[z].base \in Texts /\ Track[z].album \in Texts
             /\ Track[z].artists \subseteq Texts
  BY DEF Texts
<1>2. \A a, b \in Texts : Similarity[<<a, b>>] \in Ratios
  BY SimilarityAssumption
<1>3. /\ Similarity[<<Track[x].base, Track[y].base>>] \in Ratios
      /\ Similarity[<<Track[x].album, Track[y].album>>] \in Ratios
  BY <1>1, <1>2
<1>4. \A a \in Track[x].artists, b \in Track[y].artists : Similarity[<<a, b>>] \in Ratios
  BY <1>1, <1>2
<1>5. \A z \in DOMAIN Track : /\ Track[z].seconds \in Nat \cup {None}
                              /\ IsFiniteSet(Track[z].artists \cup Track[z].featured)
  BY TracksAssumption
<1> QED
  BY <1>3, <1>4, <1>5

(* Dividing by a positive number.                                          *)
LEMMA Quotient ==
  ASSUME NEW a \in Nat, NEW b \in Nat \ {0}
  PROVE  a \div b \in Nat
OBVIOUS

(* Each component of a score is a ratio.                                   *)
LEMMA ComponentsAreRatios ==
  ASSUME NEW x \in DOMAIN Track, NEW y \in DOMAIN Track
  PROVE  /\ TitleScore(Track[x], Track[y]) \in Ratios
         /\ ArtistScore(Track[x], Track[y]) \in Ratios
         /\ DurationScore(Track[x], Track[y]) \in Ratios
         /\ AlbumScore(Track[x], Track[y]) \in Ratios
<1> DEFINE s == Track[x]
           c == Track[y]
<1>1. TitleScore(s, c) \in Ratios
  <2>1. Similarity[<<s.base, c.base>>] \in Ratios
    BY TrackFacts
  <2> QED
    BY <2>1 DEF TitleScore, Ratios
<1>2. AlbumScore(s, c) \in Ratios
  <2>1. Similarity[<<s.album, c.album>>] \in Ratios
    BY TrackFacts
  <2> QED
    BY <2>1 DEF AlbumScore, Ratio, Ratios
<1>3. DurationScore(s, c) \in Ratios
  <2>1. CASE None \in {s.seconds, c.seconds}
    BY <2>1 DEF DurationScore, Ratios
  <2>2. CASE None \notin {s.seconds, c.seconds}
    <3> DEFINE apart == IF s.seconds > c.seconds THEN s.seconds - c.seconds
                                                 ELSE c.seconds - s.seconds
    <3>1. s.seconds \in Nat /\ c.seconds \in Nat
      BY <2>2, TrackFacts
    <3>2. apart \in Nat
      BY <3>1
    <3>3. DurationScore(s, c) = IF apart <= 2 THEN 10000
                                ELSE IF apart >= 15 THEN 0
                                ELSE 10000 - ((apart - 2) * 10000) \div 13
      BY <2>2 DEF DurationScore
    <3> HIDE DEF apart
    <3>4. ASSUME apart > 2, apart < 15
          PROVE  10000 - ((apart - 2) * 10000) \div 13 \in Ratios
      <4> DEFINE m == (apart - 2) * 10000
                 q == m \div 13
      <4>1. m \in Nat /\ m < 13 * 10000
        BY <3>2, <3>4
      <4> HIDE DEF m
      <4>2. q \in Nat /\ q <= 10000
        BY <4>1
      <4> HIDE DEF q
      <4>3. 10000 - q \in Ratios
        BY <4>2 DEF Ratios
      <4> QED
        BY <4>3 DEF q, m
    <3> QED
      BY <3>2, <3>3, <3>4 DEF Ratios
  <2> QED
    BY <2>1, <2>2
<1>4. ArtistScore(s, c) \in Ratios
  <2> DEFINE all     == s.artists \cup s.featured
             others  == c.artists \cup c.featured
             overlap == Cardinality(all \cap others)
             first   == CHOOSE a \in s.artists : TRUE
             other   == CHOOSE a \in c.artists : TRUE
             part    == (4000 * overlap) \div Cardinality(all \cup others)
             near    == (9 * Similarity[<<first, other>>]) \div 10
  <2>1. ArtistScore(s, c) =
          IF s.artists \cap c.artists # {}
            THEN IF s.artists = c.artists THEN 10000 ELSE 9000
          ELSE IF overlap > 0
            THEN IF all = others THEN 9500 ELSE Least(8500, 5500 + part)
          ELSE IF {} \in {s.artists, c.artists} THEN 0 ELSE near
    BY DEF ArtistScore
  <2>2. ASSUME overlap > 0 PROVE part \in Nat
    <3>1. IsFiniteSet(all) /\ IsFiniteSet(others)
      BY TrackFacts
    <3>2. IsFiniteSet(all \cap others) /\ IsFiniteSet(all \cup others)
      BY <3>1, FS_Intersection, FS_Union
    <3>3. overlap \in Nat /\ Cardinality(all \cup others) \in Nat
      BY <3>2, FS_CardinalityType
    <3>4. Cardinality(all \cup others) # 0
      <4>1. all \cap others \subseteq all \cup others
        OBVIOUS
      <4>2. overlap <= Cardinality(all \cup others)
        BY <3>2, <4>1, FS_Subset
      <4> QED
        BY <2>2, <3>3, <4>2
    <3>5. 4000 * overlap \in Nat
      BY <3>3
    <3> QED
      BY <3>3, <3>4, <3>5, Quotient
  <2>3. ASSUME {} \notin {s.artists, c.artists} PROVE near \in Nat /\ near <= 9000
    <3>1. first \in s.artists /\ other \in c.artists
      BY <2>3
    <3>2. Similarity[<<first, other>>] \in Ratios
      BY <3>1, TrackFacts
    <3> DEFINE q == Similarity[<<first, other>>]
    <3>3. q \in Nat /\ q <= 10000
      BY <3>2 DEF Ratios
    <3> HIDE DEF q
    <3>4. (9 * q) \div 10 \in Nat /\ (9 * q) \div 10 <= 9000
      BY <3>3
    <3> QED
      BY <3>4 DEF q
  <2> HIDE DEF all, others, overlap, first, other, part, near
  <2> QED
    BY <2>1, <2>2, <2>3 DEF Least, Ratios
<1> QED
  BY <1>1, <1>2, <1>3, <1>4

(* A score is a natural number, at most what the penalty leaves.           *)
LEMMA ScoreBounds ==
  ASSUME NEW x \in DOMAIN Track, NEW y \in DOMAIN Track
  PROVE  /\ Score(Track[x], Track[y]) \in Nat
         /\ Penalty(Track[x], Track[y]) \in Nat
         /\ Score(Track[x], Track[y]) <= 1000000
         /\ Score(Track[x], Track[y]) > 0 =>
              Score(Track[x], Track[y]) + Penalty(Track[x], Track[y]) <= 1000000
<1> DEFINE p == Penalty(Track[x], Track[y])
<1>1. p \in Nat
  BY DEF Penalty
<1> HIDE DEF p
<1> DEFINE a == TitleScore(Track[x], Track[y])
           b == ArtistScore(Track[x], Track[y])
           c == DurationScore(Track[x], Track[y])
           d == AlbumScore(Track[x], Track[y])
<1>2. a \in Ratios /\ b \in Ratios /\ c \in Ratios /\ d \in Ratios
  BY ComponentsAreRatios
<1>3. Score(Track[x], Track[y]) = Floored(40 * a + 28 * b + 14 * c + 18 * d - p)
  BY DEF Score, p
<1> HIDE DEF a, b, c, d
<1>4. /\ Floored(40 * a + 28 * b + 14 * c + 18 * d - p) \in Nat
      /\ Floored(40 * a + 28 * b + 14 * c + 18 * d - p) <= 1000000
      /\ Floored(40 * a + 28 * b + 14 * c + 18 * d - p) > 0 =>
           Floored(40 * a + 28 * b + 14 * c + 18 * d - p) + p <= 1000000
  BY <1>1, <1>2 DEF Floored, Ratios
<1> QED
  BY <1>1, <1>3, <1>4 DEF p

(***************************************************************************)
(* Sorting                                                                 *)
(***************************************************************************)
(* In a stable sort, what stands at place i of the list goes before what   *)
(* stands at place j.                                                      *)
Before(s, key, i, j) ==
  key[s[i]] < key[s[j]] \/ (i < j /\ key[s[i]] = key[s[j]])

Ahead(s, key, i) == {j \in DOMAIN s : Before(s, key, j, i)}

(* What a sorted list t takes from a list s: every place once, those that  *)
(* go before first.                                                        *)
Arranges(t, s, key, at) ==
  /\ at \in [DOMAIN s -> DOMAIN s]
  /\ \A m \in DOMAIN s : \E k \in DOMAIN s : at[k] = m
  /\ DOMAIN t = DOMAIN s /\ \A k \in DOMAIN s : t[k] = s[at[k]]
  /\ \A j, k \in DOMAIN s : j < k => Before(s, key, at[j], at[k])

(* The places of a list with numbers as keys are totally ordered.          *)
LEMMA BeforeIsAnOrder ==
  ASSUME NEW n \in Nat, NEW s, DOMAIN s = 1 .. n, NEW key,
         \A k \in DOMAIN s : key[s[k]] \in Int
  PROVE  \A i, j \in DOMAIN s :
           /\ ~Before(s, key, i, i)
           /\ i # j => Before(s, key, i, j) \/ Before(s, key, j, i)
           /\ \A k \in DOMAIN s :
                Before(s, key, i, j) /\ Before(s, key, j, k) => Before(s, key, i, k)
BY DEF Before

(* More is ahead of what comes later.                                      *)
LEMMA AheadGrows ==
  ASSUME NEW n \in Nat, NEW s, DOMAIN s = 1 .. n, NEW key,
         \A k \in DOMAIN s : key[s[k]] \in Int,
         NEW i \in DOMAIN s, NEW j \in DOMAIN s
  PROVE  /\ Cardinality(Ahead(s, key, i)) \in 0 .. n - 1
         /\ Before(s, key, i, j) =>
              Cardinality(Ahead(s, key, i)) < Cardinality(Ahead(s, key, j))
<1>1. \A m \in DOMAIN s : /\ IsFiniteSet(Ahead(s, key, m))
                          /\ Cardinality(Ahead(s, key, m)) \in 0 .. n - 1
  <2>1. SUFFICES ASSUME NEW m \in DOMAIN s
                 PROVE  /\ IsFiniteSet(Ahead(s, key, m))
                        /\ Cardinality(Ahead(s, key, m)) \in 0 .. n - 1
    OBVIOUS
  <2>2. IsFiniteSet(1 .. n) /\ Cardinality(1 .. n) = n
    BY FS_Interval
  <2>3. IsFiniteSet(DOMAIN s \ {m}) /\ Cardinality(DOMAIN s \ {m}) = n - 1
    BY <2>2, FS_RemoveElement
  <2>4. Ahead(s, key, m) \in SUBSET (DOMAIN s \ {m})
    BY BeforeIsAnOrder DEF Ahead
  <2>5. /\ IsFiniteSet(Ahead(s, key, m))
        /\ Cardinality(Ahead(s, key, m)) <= Cardinality(DOMAIN s \ {m})
    BY <2>3, <2>4, FS_Subset
  <2> QED
    BY <2>3, <2>5, FS_CardinalityType
<1>2. ASSUME Before(s, key, i, j)
      PROVE  Cardinality(Ahead(s, key, i)) < Cardinality(Ahead(s, key, j))
  <2>1. /\ Ahead(s, key, i) \in SUBSET Ahead(s, key, j)
        /\ i \in Ahead(s, key, j) /\ i \notin Ahead(s, key, i)
    BY <1>2, BeforeIsAnOrder DEF Ahead
  <2>2. Ahead(s, key, i) # Ahead(s, key, j)
    BY <2>1
  <2>3. /\ Cardinality(Ahead(s, key, i)) <= Cardinality(Ahead(s, key, j))
        /\ Cardinality(Ahead(s, key, i)) # Cardinality(Ahead(s, key, j))
    BY <1>1, <2>1, <2>2, FS_Subset
  <2> QED
    BY <1>1, <2>3
<1> QED
  BY <1>1, <1>2

(* A sorted list holds every place of the list once, in the order of the   *)
(* keys, and of two with the same key the first stays first.               *)
LEMMA SortedArranges ==
  ASSUME NEW T, NEW s \in Seq(T), NEW key, \A k \in DOMAIN s : key[s[k]] \in Int
  PROVE  \E at : Arranges(Sorted(s, key), s, key, at)
<1> DEFINE n == Len(s)
           rank == [i \in DOMAIN s |-> Cardinality(Ahead(s, key, i)) + 1]
           at == [k \in DOMAIN s |->
                    CHOOSE i \in DOMAIN s : Cardinality(Ahead(s, key, i)) = k - 1]
<1>1. n \in Nat /\ DOMAIN s = 1 .. n
  OBVIOUS
<1>2. \A i, j \in DOMAIN s :
        /\ Cardinality(Ahead(s, key, i)) \in 0 .. n - 1
        /\ Before(s, key, i, j) =>
             Cardinality(Ahead(s, key, i)) < Cardinality(Ahead(s, key, j))
  <2> HIDE DEF n
  <2> QED
    BY <1>1, AheadGrows
<1>3. Sorted(s, key) = [k \in DOMAIN s |-> s[at[k]]]
  <2>1. \A i \in DOMAIN s :
          Ahead(s, key, i) = {j \in DOMAIN s : \/ key[s[j]] < key[s[i]]
                                               \/ j < i /\ key[s[j]] = key[s[i]]}
    BY DEF Ahead, Before
  <2> QED
    BY DEF Sorted, Ahead, Before
<1> HIDE DEF n
<1>4. rank \in [DOMAIN s -> DOMAIN s]
  BY <1>1, <1>2
<1>5. \A i, j \in DOMAIN s : Before(s, key, i, j) => rank[i] < rank[j]
  BY <1>1, <1>2
<1>6. \A i, j \in DOMAIN s : i # j => rank[i] # rank[j]
  <2>1. \A i, j \in DOMAIN s : i # j => Before(s, key, i, j) \/ Before(s, key, j, i)
    BY <1>1, BeforeIsAnOrder
  <2>2. \A i \in DOMAIN s : rank[i] \in Nat
    BY <1>1, <1>4
  <2> HIDE DEF rank
  <2> QED
    BY <1>5, <2>1, <2>2
<1>7. \A k \in DOMAIN s : \E i \in DOMAIN s : rank[i] = k
  <2>1. rank \in Injection(DOMAIN s, DOMAIN s)
    BY <1>4, <1>6 DEF Injection, IsInjective
  <2>2. IsFiniteSet(DOMAIN s)
    BY <1>1, FS_Interval
  <2> HIDE DEF rank
  <2>3. rank \in Surjection(DOMAIN s, DOMAIN s)
    BY <2>1, <2>2, FS_Injection
  <2> QED
    BY <2>3 DEF Surjection
<1>8. \A k \in DOMAIN s : at[k] \in DOMAIN s /\ rank[at[k]] = k
  <2>1. \A k \in DOMAIN s :
          \E i \in DOMAIN s : Cardinality(Ahead(s, key, i)) = k - 1
    BY <1>1, <1>2, <1>7
  <2>2. \A k \in DOMAIN s :
          at[k] \in DOMAIN s /\ Cardinality(Ahead(s, key, at[k])) = k - 1
    BY <2>1
  <2> HIDE DEF at
  <2> QED
    BY <1>1, <2>2
<1>9. \A j, k \in DOMAIN s : j < k => Before(s, key, at[j], at[k])
  <2>1. SUFFICES ASSUME NEW j \in DOMAIN s, NEW k \in DOMAIN s, j < k,
                        ~Before(s, key, at[j], at[k])
                 PROVE  FALSE
    OBVIOUS
  <2>2. at[j] # at[k]
    <3> HIDE DEF at, rank
    <3> QED
      BY <1>1, <1>8, <2>1
  <2>3. Before(s, key, at[k], at[j])
    <3> HIDE DEF at
    <3> QED
      BY <1>1, <1>8, <2>1, <2>2, BeforeIsAnOrder
  <2>4. rank[at[k]] < rank[at[j]]
    <3> HIDE DEF at, rank
    <3> QED
      BY <1>5, <1>8, <2>3
  <2> HIDE DEF at, rank
  <2> QED
    BY <1>1, <1>8, <2>1, <2>4
<1>10. \A m \in DOMAIN s : \E k \in DOMAIN s : at[k] = m
  <2> HIDE DEF at, rank
  <2> QED
    BY <1>4, <1>6, <1>8
<1>11. at \in [DOMAIN s -> DOMAIN s]
  <2>1. at = [k \in DOMAIN s |-> at[k]]
    OBVIOUS
  <2> HIDE DEF at, rank
  <2> QED
    BY <1>8, <2>1
<1> HIDE DEF at, rank
<1> QED
  BY <1>3, <1>8, <1>9, <1>10, <1>11 DEF Arranges

(***************************************************************************)
(* Concatenating a list of lists                                           *)
(***************************************************************************)
(* The recursion of FlattenSeq, one step.                                  *)
Joined(ss, f, n) == IF n = 1 THEN ss[n] ELSE f[n - 1] \o ss[n]

(* The recursion has a solution, and FlattenSeq is its last value.         *)
LEMMA FlattenUnfolds ==
  ASSUME NEW ss, Len(ss) \in Nat \ {0}
  PROVE  \E f : /\ f = [n \in 1 .. Len(ss) |-> Joined(ss, f, n)]
                /\ FlattenSeq(ss) = f[Len(ss)]
<1> DEFINE Solves(f, m) == f = [n \in 1 .. m |-> Joined(ss, f, n)]
           Good == {m \in Nat : \E f : Solves(f, m)}
<1>1. 0 \in Good
  <2>1. Solves([n \in 1 .. 0 |-> << >>], 0)
    OBVIOUS
  <2> QED
    BY <2>1
<1>2. ASSUME NEW m \in Nat, m \in Good PROVE m + 1 \in Good
  <2>1. PICK f : Solves(f, m)
    BY <1>2
  <2> DEFINE g == [n \in 1 .. m + 1 |->
                     IF n <= m THEN f[n] ELSE Joined(ss, f, m + 1)]
  <2>2. \A n \in 1 .. m + 1 : g[n] = Joined(ss, g, n)
    <3>1. SUFFICES ASSUME NEW n \in 1 .. m + 1 PROVE g[n] = Joined(ss, g, n)
      OBVIOUS
    <3>2. n # 1 => n - 1 \in 1 .. m /\ g[n - 1] = f[n - 1]
      OBVIOUS
    <3>3. Joined(ss, g, n) = Joined(ss, f, n)
      BY <3>2 DEF Joined
    <3>4. CASE n = m + 1
      BY <3>3, <3>4
    <3>5. CASE n # m + 1
      <4>1. n \in 1 .. m /\ g[n] = f[n]
        BY <3>5
      <4>2. f[n] = Joined(ss, f, n)
        <5> HIDE DEF g
        <5> QED BY <2>1, <4>1
      <4> QED
        BY <4>1, <4>2, <3>3
    <3> QED
      BY <3>4, <3>5
  <2>3. g = [n \in 1 .. m + 1 |-> g[n]]
    OBVIOUS
  <2>4. Solves(g, m + 1)
    <3> HIDE DEF g
    <3> QED BY <2>2, <2>3
  <2>5. \E h : Solves(h, m + 1)
    <3> HIDE DEF g, Solves
    <3> QED BY <2>4
  <2> QED
    BY <2>5
<1>3. Len(ss) \in Good
  <2> HIDE DEF Good
  <2> QED BY <1>1, <1>2, Induction
<1> DEFINE flatten == CHOOSE f : Solves(f, Len(ss))
<1>4. Solves(flatten, Len(ss))
  BY <1>3
<1>5. FlattenSeq(ss) = flatten[Len(ss)]
  BY DEF FlattenSeq, Joined
<1> QED
  BY <1>4, <1>5

(* Where the lists stand in their concatenation: each of them whole, one   *)
(* behind the other, and nothing else.                                     *)
Stands(t, ss, n, from) ==
  /\ from \in [1 .. n -> Nat]
  /\ \A p \in 1 .. n :
       /\ from[p] + Len(ss[p]) <= Len(t)
       /\ \A m \in 1 .. Len(ss[p]) : t[from[p] + m] = ss[p][m]
  /\ \A p, q \in 1 .. n : p < q => from[p] + Len(ss[p]) <= from[q]
  /\ \A j \in 1 .. Len(t) :
       \E p \in 1 .. n : \E m \in 1 .. Len(ss[p]) : j = from[p] + m

(* One list more stands behind those that are there.                       *)
LEMMA StandsBehind ==
  ASSUME NEW T, NEW ss \in Seq(Seq(T)), NEW n \in Nat, n + 1 \in 1 .. Len(ss),
         NEW t \in Seq(T), NEW from, Stands(t, ss, n, from)
  PROVE  \E to : Stands(t \o ss[n + 1], ss, n + 1, to)
<1> DEFINE b == ss[n + 1]
           u == t \o b
           to == [p \in 1 .. n + 1 |-> IF p <= n THEN from[p] ELSE Len(t)]
<1>1. /\ b \in Seq(T) /\ Len(b) \in Nat /\ Len(t) \in Nat
      /\ \A p \in 1 .. n : ss[p] \in Seq(T) /\ Len(ss[p]) \in Nat
  OBVIOUS
<1>2. /\ Len(u) = Len(t) + Len(b)
      /\ \A i \in 1 .. Len(t) : u[i] = t[i]
      /\ \A i \in 1 .. Len(b) : u[Len(t) + i] = b[i]
  <2> HIDE DEF b
  <2> QED
    BY <1>1
<1> HIDE DEF u
<1>3. to \in [1 .. n + 1 -> Nat] /\ to[n + 1] = Len(t) /\ \A p \in 1 .. n : to[p] = from[p]
  BY <1>1 DEF Stands
<1> HIDE DEF to
<1>4. ASSUME NEW p \in 1 .. n + 1
      PROVE  /\ to[p] + Len(ss[p]) <= Len(u)
             /\ \A m \in 1 .. Len(ss[p]) : u[to[p] + m] = ss[p][m]
  <2>1. CASE p = n + 1
    <3>1. to[p] = Len(t) /\ ss[p] = b
      BY <1>3, <2>1
    <3> HIDE DEF b
    <3> QED
      BY <1>1, <1>2, <3>1
  <2>2. CASE p # n + 1
    <3>1. p \in 1 .. n /\ to[p] = from[p] /\ from[p] \in Nat
      BY <1>3, <2>2 DEF Stands
    <3>2. /\ from[p] + Len(ss[p]) <= Len(t)
          /\ \A m \in 1 .. Len(ss[p]) : t[from[p] + m] = ss[p][m]
      BY <3>1 DEF Stands
    <3>3. ASSUME NEW m \in 1 .. Len(ss[p]) PROVE from[p] + m \in 1 .. Len(t)
      <4>1. m \in Nat /\ m >= 1 /\ m <= Len(ss[p]) /\ Len(ss[p]) \in Nat
        BY <1>1, <3>1
      <4>2. from[p] + m <= Len(t) /\ from[p] + m >= 1 /\ from[p] + m \in Nat
        BY <1>1, <3>1, <3>2, <4>1
      <4> QED
        BY <1>1, <4>2
    <3>4. \A m \in 1 .. Len(ss[p]) : u[to[p] + m] = ss[p][m]
      BY <1>2, <3>1, <3>2, <3>3
    <3>5. Len(ss[p]) \in Nat
      BY <1>1, <3>1
    <3> HIDE DEF b
    <3>6. to[p] + Len(ss[p]) <= Len(u)
      BY <1>1, <1>2, <3>1, <3>2, <3>5
    <3> QED
      BY <3>4, <3>6
  <2> QED
    BY <2>1, <2>2
<1>5. ASSUME NEW p \in 1 .. n + 1, NEW q \in 1 .. n + 1, p < q
      PROVE  to[p] + Len(ss[p]) <= to[q]
  <2>1. p \in 1 .. n /\ to[p] = from[p]
    BY <1>3, <1>5
  <2>2. CASE q = n + 1
    BY <1>3, <2>1, <2>2 DEF Stands
  <2>3. CASE q # n + 1
    <3>1. q \in 1 .. n
      BY <2>3
    <3> QED
      BY <1>3, <1>5, <2>1, <3>1 DEF Stands
  <2> QED
    BY <2>2, <2>3
<1>6. ASSUME NEW j \in 1 .. Len(u)
      PROVE  \E p \in 1 .. n + 1 : \E m \in 1 .. Len(ss[p]) : j = to[p] + m
  <2>1. CASE j <= Len(t)
    <3>1. j \in 1 .. Len(t)
      BY <1>1, <1>2, <2>1
    <3>2. PICK p \in 1 .. n : \E m \in 1 .. Len(ss[p]) : j = from[p] + m
      BY <3>1 DEF Stands
    <3>3. p \in 1 .. n + 1 /\ to[p] = from[p]
      BY <1>3
    <3> QED
      BY <3>2, <3>3
  <2>2. CASE j > Len(t)
    <3>1. j - Len(t) \in 1 .. Len(b) /\ j = to[n + 1] + (j - Len(t))
      BY <1>1, <1>2, <1>3, <2>2
    <3> QED
      BY <3>1
  <2>3. j \in Int /\ Len(t) \in Int
    BY <1>1
  <2> QED
    BY <2>1, <2>2, <2>3
<1>7. Stands(u, ss, n + 1, to)
  BY <1>3, <1>4, <1>5, <1>6 DEF Stands
<1> QED
  BY <1>7 DEF u

(* What FlattenSeq returns.                                                *)
LEMMA FlattenStands ==
  ASSUME NEW T, NEW ss \in Seq(Seq(T))
  PROVE  /\ FlattenSeq(ss) \in Seq(T)
         /\ \E from : Stands(FlattenSeq(ss), ss, Len(ss), from)
<1>1. CASE Len(ss) = 0
  <2>1. FlattenSeq(ss) = << >>
    BY <1>1 DEF FlattenSeq
  <2>2. Stands(<< >>, ss, 0, [p \in 1 .. 0 |-> 0])
    BY DEF Stands
  <2> QED
    BY <1>1, <2>1, <2>2
<1>2. CASE Len(ss) # 0
  <2>1. PICK f : /\ f = [n \in 1 .. Len(ss) |-> Joined(ss, f, n)]
                 /\ FlattenSeq(ss) = f[Len(ss)]
    BY <1>2, FlattenUnfolds
  <2> DEFINE Good == {n \in Nat : n \in 1 .. Len(ss) =>
                        f[n] \in Seq(T) /\ \E from : Stands(f[n], ss, n, from)}
  <2>2. 0 \in Good
    OBVIOUS
  <2>3. ASSUME NEW n \in Nat, n \in Good PROVE n + 1 \in Good
    <3>1. SUFFICES ASSUME n + 1 \in 1 .. Len(ss)
                   PROVE  /\ f[n + 1] \in Seq(T)
                          /\ \E to : Stands(f[n + 1], ss, n + 1, to)
      OBVIOUS
    <3>2. f[n + 1] = Joined(ss, f, n + 1)
      <4> HIDE DEF Good
      <4> QED
        BY <2>1, <3>1
    <3>3. ss[n + 1] \in Seq(T)
      BY <3>1
    <3>4. CASE n = 0
      <4>1. f[n + 1] = ss[n + 1] /\ n + 1 = 1
        BY <3>2, <3>4 DEF Joined
      <4>2. Stands(ss[1], ss, 1, [p \in 1 .. 1 |-> 0])
        <5>1. Len(ss[1]) \in Nat
          BY <3>3, <4>1
        <5> QED
          BY <5>1 DEF Stands
      <4> QED
        BY <3>3, <4>1, <4>2
    <3>5. CASE n # 0
      <4>1. n \in 1 .. Len(ss) /\ (n + 1) - 1 = n /\ n + 1 # 1
        BY <3>1, <3>5
      <4>2. f[n + 1] = f[n] \o ss[n + 1]
        BY <3>2, <4>1 DEF Joined
      <4>3. f[n] \in Seq(T) /\ \E from : Stands(f[n], ss, n, from)
        BY <2>3, <4>1
      <4>4. \E to : Stands(f[n] \o ss[n + 1], ss, n + 1, to)
        <5> HIDE DEF Good
        <5> QED
          BY <3>1, <4>3, StandsBehind
      <4>5. f[n] \o ss[n + 1] \in Seq(T)
        BY <3>3, <4>3
      <4> QED
        BY <4>2, <4>4, <4>5
    <3> QED
      BY <3>4, <3>5
  <2>4. Len(ss) \in Good
    <3>1. Len(ss) \in Nat
      OBVIOUS
    <3> HIDE DEF Good
    <3>2. Nat \subseteq Good
      BY ONLY <2>2, <2>3, Induction
    <3> QED
      BY <3>1, <3>2
  <2>5. Len(ss) \in 1 .. Len(ss)
    BY <1>2
  <2> QED
    BY <2>1, <2>4, <2>5
<1> QED
  BY <1>1, <1>2

(***************************************************************************)
(* What every state of the planner is made of                              *)
(***************************************************************************)
Statuses ==
  {"pending", "matched", "ambiguous", "not_found", "already_exists",
   "transferred", "failed"}

Targets == DOMAIN Track \cup {None}

Items ==
  [of : Entries, target : Targets, status : Statuses, filed : BOOLEAN]

(* Library and settings stay those of one of the jobs.                     *)
JobInv == \E job \in Jobs : library = job.library /\ settings = job.settings

(* The types of what a plan is made of.                                    *)
PlanTypes ==
  /\ phase \in {"planning", "unsupported", "confirmed", "written", "verified",
               "unverified"}
  /\ JobInv
  /\ stage \in Nat \ {0}
  /\ turns = None \/ turns \in Seq(Entries)
  /\ items \in Seq(Items)

(* What is known of a job.                                                 *)
LEMMA JobFacts ==
  ASSUME JobInv
  PROVE  /\ \A list \in Favorites : library[list] \in Seq(DOMAIN Track)
         /\ library.playlists \in Seq(Seq(DOMAIN Track \cup {None}))
         /\ settings.content \in Seq({"tracks", "albums", "artists", "playlists"})
         /\ settings.ordering \in Orderings
<1>1. PICK job \in Jobs : library = job.library /\ settings = job.settings
  BY DEF JobInv
<1>2. /\ \A list \in Favorites : job.library[list] \in Seq(DOMAIN Track)
      /\ job.library.playlists \in Seq(Seq(DOMAIN Track \cup {None}))
      /\ job.settings.content \in Seq(Favorites \cup {"playlists"})
      /\ job.settings.ordering \in Orderings
  BY JobsAssumption
<1>3. Favorites \cup {"playlists"} = {"tracks", "albums", "artists", "playlists"}
  BY DEF Favorites
<1>4. \A list \in Favorites : library[list] \in Seq(DOMAIN Track)
  BY <1>1, <1>2
<1> QED
  BY <1>1, <1>2, <1>3, <1>4

(* A sorted list holds what the list held.                                 *)
LEMMA SortedType ==
  ASSUME NEW T, NEW s \in Seq(T), NEW key, \A k \in DOMAIN s : key[s[k]] \in Int
  PROVE  Sorted(s, key) \in Seq(T) /\ Len(Sorted(s, key)) = Len(s)
<1>1. PICK at : Arranges(Sorted(s, key), s, key, at)
  BY SortedArranges
<1>2. /\ Len(s) \in Nat /\ DOMAIN s = 1 .. Len(s)
      /\ \A k \in DOMAIN s : s[k] \in T
  OBVIOUS
<1> DEFINE t == Sorted(s, key)
<1>3. t = [k \in 1 .. Len(s) |-> t[k]]
  BY <1>2 DEF Sorted
<1>4. \A k \in 1 .. Len(s) : t[k] \in T
  BY <1>1, <1>2 DEF Arranges
<1> HIDE DEF t
<1>5. t \in [1 .. Len(s) -> T]
  BY <1>3, <1>4
<1>6. t \in Seq(T) /\ Len(t) = Len(s)
  BY <1>2, <1>5
<1> QED
  BY <1>6 DEF t

(* What has a key in the mode asked for, and what has none.                *)
Field(section)     == SortedBy[section][settings.ordering]
WithKey(ids, key)  == Sublist(ids, DOMAIN key)
Keyless(ids, key)  == Sublist(ids, DOMAIN Track \ DOMAIN key)

(* Both parts of a list.                                                   *)
LEMMA KeyParts ==
  ASSUME NEW ids \in Seq(DOMAIN Track), NEW key, \A a \in DOMAIN key : key[a] \in Int
  PROVE  /\ WithKey(ids, key) \in Seq(DOMAIN Track)
         /\ Keyless(ids, key) \in Seq(DOMAIN Track)
         /\ \A k \in DOMAIN WithKey(ids, key) :
              /\ WithKey(ids, key)[k] \in DOMAIN key
              /\ key[WithKey(ids, key)[k]] \in Int
         /\ \A k \in DOMAIN Keyless(ids, key) : Keyless(ids, key)[k] \notin DOMAIN key
<1>1. /\ WithKey(ids, key) \in Seq(DOMAIN Track)
      /\ \A k \in 1 .. Len(WithKey(ids, key)) : WithKey(ids, key)[k] \in DOMAIN key
  BY SublistPlaces, SublistHolds DEF WithKey
<1>2. /\ Keyless(ids, key) \in Seq(DOMAIN Track)
      /\ \A k \in 1 .. Len(Keyless(ids, key)) :
           Keyless(ids, key)[k] \in DOMAIN Track \ DOMAIN key
  BY SublistPlaces, SublistHolds DEF Keyless
<1>3. /\ DOMAIN WithKey(ids, key) = 1 .. Len(WithKey(ids, key))
      /\ DOMAIN Keyless(ids, key) = 1 .. Len(Keyless(ids, key))
  BY <1>1, <1>2
<1> QED
  BY <1>1, <1>2, <1>3

(* Whatever a section is sorted by is a number where it is known.          *)
LEMMA KeyHolds ==
  ASSUME settings.ordering \in Orderings, NEW section \in Favorites,
         settings.ordering \in DOMAIN SortedBy[section]
  PROVE  /\ DOMAIN Key(section)
              = {a \in DOMAIN Track : Track[a].keys[Field(section)] # None}
         /\ \A a \in DOMAIN Key(section) :
              /\ Key(section)[a] \in Int /\ Track[a].keys[Field(section)] \in Int
              /\ settings.ordering = "newest"
                   => Key(section)[a] = -Track[a].keys[Field(section)]
              /\ settings.ordering # "newest"
                   => Key(section)[a] = Track[a].keys[Field(section)]
<1> DEFINE field == Field(section)
           D == {a \in DOMAIN Track : Track[a].keys[field] # None}
<1>1. field \in Fields
  <2>1. CASE section = "tracks"
    BY <2>1 DEF Field, SortedBy, Fields
  <2>2. CASE section = "albums"
    BY <2>2 DEF Field, SortedBy, Fields
  <2>3. CASE section = "artists"
    BY <2>3 DEF Field, SortedBy, Fields
  <2> QED
    BY <2>1, <2>2, <2>3 DEF Favorites
<1>2. Key(section) = [a \in D |-> IF settings.ordering = "newest"
                                 THEN -Track[a].keys[field] ELSE Track[a].keys[field]]
  BY DEF Key, Field
<1> HIDE DEF field
<1>3. \A a \in D : Track[a].keys[field] \in Int
  BY <1>1, TracksAssumption
<1> QED
  BY <1>2, <1>3 DEF field

(* An ordered section is a list of tracks.                                 *)
LEMMA OrderedType ==
  ASSUME JobInv, NEW section \in Favorites
  PROVE  Ordered(section) \in Seq(DOMAIN Track)
<1> DEFINE ids == library[section]
           key == Key(section)
           D == WithKey(ids, key)
           U == Keyless(ids, key)
<1>1. ids \in Seq(DOMAIN Track)
  BY JobFacts
<1>2. CASE settings.ordering \in DOMAIN SortedBy[section]
  <2>1. \A a \in DOMAIN key : key[a] \in Int
    BY <1>2, JobFacts, KeyHolds
  <2>2. Ordered(section) = Sorted(D, key) \o U
    BY <1>2 DEF Ordered, Keyed, WithKey, Keyless
  <2> HIDE DEF ids, key
  <2>3. /\ D \in Seq(DOMAIN Track) /\ U \in Seq(DOMAIN Track)
        /\ \A k \in DOMAIN D : key[D[k]] \in Int
    BY <1>1, <2>1, KeyParts
  <2> HIDE DEF D, U
  <2>4. Sorted(D, key) \in Seq(DOMAIN Track)
    BY <2>3, SortedType
  <2> QED
    BY <2>2, <2>3, <2>4
<1>3. CASE settings.ordering \notin DOMAIN SortedBy[section]
  BY <1>1, <1>3 DEF Ordered
<1> QED
  BY <1>2, <1>3

(* The turns of a playlist: the playlist, then its entries.                *)
Block(p) ==
  <<Entry("playlist", p, p, p)>>
    \o [k \in DOMAIN library.playlists[p] |->
          Entry("entry", p, k, library.playlists[p][k])]

Blocks == [p \in DOMAIN library.playlists |-> Block(p)]

(* The first turn is of the playlist, the others of its entries, in their  *)
(* order.                                                                  *)
LEMMA BlockHolds ==
  ASSUME JobInv, NEW p \in DOMAIN library.playlists
  PROVE  /\ Block(p) \in Seq(Entries)
         /\ Len(library.playlists[p]) \in Nat
         /\ DOMAIN library.playlists[p] = 1 .. Len(library.playlists[p])
         /\ Len(Block(p)) = 1 + Len(library.playlists[p])
         /\ Block(p)[1] = Entry("playlist", p, p, p)
         /\ \A k \in 1 .. Len(library.playlists[p]) :
              Block(p)[1 + k] = Entry("entry", p, k, library.playlists[p][k])
<1> DEFINE L == library.playlists[p]
           head == Entry("playlist", p, p, p)
           tail == [k \in DOMAIN L |-> Entry("entry", p, k, L[k])]
<1>1. L \in Seq(DOMAIN Track \cup {None}) /\ p \in Nat
  BY JobFacts
<1>2. Len(L) \in Nat /\ DOMAIN L = 1 .. Len(L)
  BY <1>1
<1>3. head \in Entries
  BY <1>1 DEF Entries, Entry
<1>4. \A k \in 1 .. Len(L) : Entry("entry", p, k, L[k]) \in Entries
  <2>1. SUFFICES ASSUME NEW k \in 1 .. Len(L) PROVE Entry("entry", p, k, L[k]) \in Entries
    OBVIOUS
  <2>2. L[k] \in DOMAIN Track \cup {None} /\ k \in Nat
    BY <1>1
  <2> HIDE DEF L
  <2> QED
    BY <1>1, <2>2 DEF Entries, Entry
<1> HIDE DEF L
<1>5. tail \in Seq(Entries) /\ Len(tail) = Len(L)
  BY <1>2, <1>4
<1>6. \A k \in 1 .. Len(L) : tail[k] = Entry("entry", p, k, L[k])
  BY <1>2
<1>7. Block(p) = <<head>> \o tail
  BY DEF Block, L
<1> HIDE DEF head, tail
<1>8. /\ <<head>> \o tail \in Seq(Entries) /\ Len(<<head>> \o tail) = 1 + Len(tail)
      /\ (<<head>> \o tail)[1] = head
      /\ \A k \in 1 .. Len(tail) : (<<head>> \o tail)[1 + k] = tail[k]
  BY <1>3, <1>5
<1>9. /\ Block(p) \in Seq(Entries) /\ Len(Block(p)) = 1 + Len(L)
      /\ Block(p)[1] = head
      /\ \A k \in 1 .. Len(L) : Block(p)[1 + k] = Entry("entry", p, k, L[k])
  BY <1>5, <1>6, <1>7, <1>8
<1> QED
  BY <1>2, <1>9 DEF L, head

(* What a section goes through, and the entries it plans.                  *)
WorkOf(section) ==
  IF section = "playlists" THEN FlattenSeq(Blocks)
  ELSE [k \in DOMAIN Ordered(section) |->
          Entry(section, None, k, Ordered(section)[k])]

(* The entries that are of a section.                                      *)
OfSection(section) ==
  IF section = "playlists" THEN {e \in Entries : e.kind \in {"playlist", "entry"}}
  ELSE {e \in Entries : e.kind = section}

Sections == {"tracks", "albums", "artists", "playlists"}

(* The playlists, one behind the other, or the favourites in their order.  *)
LEMMA WorkOfHolds ==
  ASSUME JobInv, NEW section \in Sections
  PROVE  /\ WorkOf(section) \in Seq(OfSection(section))
         /\ section # "playlists" =>
              /\ Ordered(section) \in Seq(DOMAIN Track)
              /\ Len(WorkOf(section)) = Len(Ordered(section))
              /\ \A k \in 1 .. Len(WorkOf(section)) :
                   WorkOf(section)[k]
                     = Entry(section, None, k, Ordered(section)[k])
         /\ section = "playlists" =>
              \E from : Stands(WorkOf(section), Blocks, Len(library.playlists), from)
<1>1. CASE section = "playlists"
  <2> DEFINE T == OfSection(section)
  <2>1. Len(library.playlists) \in Nat
        /\ DOMAIN library.playlists = 1 .. Len(library.playlists)
    BY JobFacts
  <2>2. ASSUME NEW p \in DOMAIN library.playlists PROVE Block(p) \in Seq(T)
    <3> DEFINE n == Len(library.playlists[p])
    <3>1. /\ Block(p) \in Seq(Entries) /\ n \in Nat
          /\ Len(Block(p)) = 1 + n
          /\ Block(p)[1] = Entry("playlist", p, p, p)
          /\ \A k \in 1 .. n : Block(p)[1 + k] = Entry("entry", p, k, library.playlists[p][k])
      BY BlockHolds
    <3> HIDE DEF n
    <3>2. ASSUME NEW k \in 1 .. 1 + n PROVE Block(p)[k].kind \in {"playlist", "entry"}
      <4>1. CASE k = 1
        BY <3>1, <4>1 DEF Entry
      <4>2. CASE k # 1
        <5>1. k - 1 \in 1 .. n /\ 1 + (k - 1) = k
          BY <3>1, <4>2
        <5>2. Block(p)[k] = Entry("entry", p, k - 1, library.playlists[p][k - 1])
          BY <3>1, <5>1
        <5> QED
          BY <5>2 DEF Entry
      <4> QED
        BY <4>1, <4>2
    <3>3. \A k \in 1 .. Len(Block(p)) : Block(p)[k] \in Entries
      BY <3>1
    <3>4. \A k \in 1 .. Len(Block(p)) : Block(p)[k] \in T
      BY <1>1, <3>1, <3>2, <3>3 DEF OfSection
    <3> HIDE DEF T
    <3> QED
      BY <3>1, <3>4
  <2> HIDE DEF T
  <2>3. Blocks \in Seq(Seq(T)) /\ Len(Blocks) = Len(library.playlists)
    BY <2>1, <2>2 DEF Blocks
  <2>4. /\ FlattenSeq(Blocks) \in Seq(T)
        /\ \E from : Stands(FlattenSeq(Blocks), Blocks, Len(library.playlists), from)
    BY <2>3, FlattenStands
  <2> QED
    BY <1>1, <2>4 DEF WorkOf, T
<1>2. CASE section # "playlists"
  <2> DEFINE ids == Ordered(section)
             list == [k \in DOMAIN ids |-> Entry(section, None, k, ids[k])]
             T == OfSection(section)
  <2>1. section \in Favorites /\ library[section] \in Seq(DOMAIN Track)
    BY <1>2, JobFacts DEF Favorites, Sections
  <2>2. ids \in Seq(DOMAIN Track)
    BY <2>1, OrderedType
  <2>3. WorkOf(section) = list
    BY <1>2 DEF WorkOf
  <2> HIDE DEF ids
  <2>4. \A k \in DOMAIN ids : Entry(section, None, k, ids[k]) \in T
    <3>1. \A k \in DOMAIN ids : k \in Nat /\ ids[k] \in DOMAIN Track
      BY <2>2
    <3>2. \A k \in DOMAIN ids : /\ Entry(section, None, k, ids[k]) \in Entries
                                /\ Entry(section, None, k, ids[k]).kind = section
      BY <2>1, <3>1 DEF Entry, Entries
    <3> QED
      BY <1>2, <3>2 DEF OfSection
  <2>5. DOMAIN ids = 1 .. Len(ids) /\ Len(ids) \in Nat
    BY <2>2
  <2> HIDE DEF T
  <2>6. list \in Seq(T) /\ Len(list) = Len(ids)
    BY <2>4, <2>5
  <2>7. \A k \in 1 .. Len(ids) : list[k] = Entry(section, None, k, ids[k])
    BY <2>5
  <2> HIDE DEF list
  <2> QED
    BY <1>2, <2>2, <2>3, <2>6, <2>7 DEF T, ids
<1> QED
  BY <1>1, <1>2

(* The turns of a section are the work of it.                              *)
LEMMA WorkType ==
  ASSUME JobInv, stage \in Nat \ {0}, stage <= Len(settings.content)
  PROVE  /\ Section \in Sections
         /\ Work = WorkOf(Section)
         /\ Work \in Seq(OfSection(Section))
         /\ Work \in Seq(Entries)
<1>1. Section \in Sections
  BY JobFacts DEF Section, Sections
<1>2. Work = WorkOf(Section)
  BY DEF Work, WorkOf, Blocks, Block
<1>3. Work \in Seq(OfSection(Section))
  BY <1>1, <1>2, WorkOfHolds
<1>4. OfSection(Section) \subseteq Entries
  BY DEF OfSection
<1>5. Work \in Seq(Entries)
  <2> DEFINE T == OfSection(Section)
  <2>1. Work \in Seq(T) /\ T \subseteq Entries
    BY <1>3, <1>4
  <2> HIDE DEF T
  <2> QED
    BY <2>1
<1> QED
  BY <1>1, <1>2, <1>3, <1>5

(***************************************************************************)
(* What a match is                                                         *)
(***************************************************************************)
Candidates == [id : Catalogue, score : Nat]

(* Those that can be compared with the source.                             *)
Fitting(s, found) == {c \in ToSet(First(s, found)) : Comparable(s, Track[c.id])}

(* They are as many as the policy looks at, in the order in which they     *)
(* were found, each with its score.                                        *)
LEMMA FirstHolds ==
  ASSUME NEW x \in DOMAIN Track, NEW found \in Seq(Catalogue)
  PROVE  /\ First(Track[x], found) \in Seq(Candidates)
         /\ Len(First(Track[x], found)) = Least(MaxCandidates, Len(found))
         /\ Least(MaxCandidates, Len(found)) \in Nat
         /\ Least(MaxCandidates, Len(found)) <= Len(found)
         /\ \A k \in 1 .. Least(MaxCandidates, Len(found)) :
              /\ First(Track[x], found)[k].id = found[k]
              /\ First(Track[x], found)[k].score = Score(Track[x], Track[found[k]])
<1> DEFINE n == Least(MaxCandidates, Len(found))
           f == First(Track[x], found)
<1>1. Len(found) \in Nat /\ \A k \in 1 .. Len(found) : found[k] \in Catalogue
  OBVIOUS
<1>2. n \in Nat /\ n <= Len(found)
  BY <1>1, PolicyAssumption DEF Least
<1> HIDE DEF n
<1>3. \A k \in 1 .. n : /\ found[k] \in Catalogue
                        /\ Score(Track[x], Track[found[k]]) \in Nat
  <2>1. \A c \in Catalogue : Score(Track[x], Track[c]) \in Nat
    BY PolicyAssumption, ScoreBounds
  <2> QED
    BY <1>1, <1>2, <2>1
<1>4. f = [k \in 1 .. n |-> [id |-> found[k], score |-> Score(Track[x], Track[found[k]])]]
  BY DEF First, n
<1>5. f \in [1 .. n -> Candidates]
  BY <1>3, <1>4 DEF Candidates
<1>6. \A k \in 1 .. n : /\ f[k].id = found[k]
                        /\ f[k].score = Score(Track[x], Track[found[k]])
  BY <1>4
<1> HIDE DEF f
<1>7. f \in Seq(Candidates) /\ Len(f) = n
  BY <1>2, <1>5
<1> QED
  BY <1>2, <1>6, <1>7 DEF f, n

(* What is ranked is what fits, with its score.                            *)
LEMMA ScoredHolds ==
  ASSUME NEW x \in DOMAIN Track, NEW found \in Seq(Catalogue)
  PROVE  /\ Scored(Track[x], found) = Sublist(First(Track[x], found),
                                              Fitting(Track[x], found))
         /\ Scored(Track[x], found) \in Seq(Candidates)
         /\ \A k \in 1 .. Len(Scored(Track[x], found)) :
              LET c == Scored(Track[x], found)[k]
              IN /\ c.score = Score(Track[x], Track[c.id])
                 /\ Comparable(Track[x], Track[c.id])
<1> DEFINE f == First(Track[x], found)
           r == Scored(Track[x], found)
<1>1. r = Sublist(f, Fitting(Track[x], found))
  BY DEF Scored, AllComparable, Fitting
<1>2. f \in Seq(Candidates) /\ Len(f) \in Nat
      /\ \A k \in 1 .. Len(f) : f[k].score = Score(Track[x], Track[f[k].id])
  BY FirstHolds
<1> HIDE DEF f, r
<1>3. /\ r \in Seq(Candidates)
      /\ \A k \in 1 .. Len(r) : /\ r[k] \in Fitting(Track[x], found)
                                /\ \E m \in 1 .. Len(f) : r[k] = f[m]
  BY <1>1, <1>2, SublistPlaces, SublistHolds
<1>4. \A k \in 1 .. Len(r) : /\ r[k].score = Score(Track[x], Track[r[k].id])
                             /\ Comparable(Track[x], Track[r[k].id])
  BY <1>2, <1>3 DEF Fitting
<1> QED
  BY <1>1, <1>3, <1>4 DEF f, r

(* The ranking holds what is ranked, and no score stands behind a lower    *)
(* one.                                                                    *)
LEMMA RankingHolds ==
  ASSUME NEW ranked \in Seq(Candidates)
  PROVE  /\ Ranking(ranked) \in Seq(Candidates)
         /\ Len(Ranking(ranked)) = Len(ranked)
         /\ \E at : /\ Arranges(Ranking(ranked), ranked,
                                [c \in ToSet(ranked) |-> -c.score], at)
                    /\ \A j, k \in 1 .. Len(ranked) : j < k =>
                         Ranking(ranked)[j].score >= Ranking(ranked)[k].score
<1> DEFINE key == [c \in ToSet(ranked) |-> -c.score]
<1>1. /\ Len(ranked) \in Nat /\ DOMAIN ranked = 1 .. Len(ranked)
      /\ \A k \in 1 .. Len(ranked) : ranked[k] \in Candidates
  OBVIOUS
<1>2. \A k \in DOMAIN ranked : ranked[k] \in ToSet(ranked) /\ ranked[k].score \in Nat
  BY <1>1 DEF ToSet, Candidates
<1>3. \A k \in DOMAIN ranked : key[ranked[k]] = -ranked[k].score
  BY <1>2
<1>4. \A k \in DOMAIN ranked : key[ranked[k]] \in Int
  BY <1>2, <1>3
<1>5. Ranking(ranked) = Sorted(ranked, key)
  BY DEF Ranking
<1> HIDE DEF key
<1>6. PICK at : Arranges(Sorted(ranked, key), ranked, key, at)
  BY <1>4, SortedArranges
<1>7. /\ Sorted(ranked, key) \in Seq(Candidates)
      /\ Len(Sorted(ranked, key)) = Len(ranked)
  BY <1>4, SortedType
<1>8. ASSUME NEW j \in 1 .. Len(ranked), NEW k \in 1 .. Len(ranked), j < k
      PROVE  Sorted(ranked, key)[j].score >= Sorted(ranked, key)[k].score
  <2>1. /\ at[j] \in DOMAIN ranked /\ at[k] \in DOMAIN ranked
        /\ Sorted(ranked, key)[j] = ranked[at[j]]
        /\ Sorted(ranked, key)[k] = ranked[at[k]]
        /\ Before(ranked, key, at[j], at[k])
    BY <1>1, <1>6, <1>8 DEF Arranges
  <2>2. key[ranked[at[j]]] < key[ranked[at[k]]] \/ key[ranked[at[j]]] = key[ranked[at[k]]]
    BY <2>1 DEF Before
  <2>3. /\ key[ranked[at[j]]] = -ranked[at[j]].score /\ ranked[at[j]].score \in Nat
        /\ key[ranked[at[k]]] = -ranked[at[k]].score /\ ranked[at[k]].score \in Nat
    BY <1>2, <1>3, <2>1
  <2>4. ranked[at[j]].score >= ranked[at[k]].score
    BY <2>2, <2>3
  <2> QED
    BY <2>1, <2>4
<1> QED
  BY <1>5, <1>6, <1>7, <1>8 DEF key

(* The score the best of a ranking counts with.                            *)
Counted(s, best) ==
  IF ReplacedByClean(s, Track[best.id]) /\ ~settings.fallback
    THEN Least(best.score, Ambiguous) ELSE best.score

(* What ByMetadata returns: nothing for nobody, and otherwise the best one *)
(* when it counts enough and the next one is not near, or nobody.          *)
LEMMA MetadataHolds ==
  ASSUME NEW x \in DOMAIN Track, NEW found \in Seq(Catalogue)
  PROVE  LET sorted == Ranking(Scored(Track[x], found))
             match  == ByMetadata(Track[x], found)
             counted == Counted(Track[x], sorted[1])
         IN /\ match \in [outcome : {"matched", "ambiguous", "not_found"},
                          target : Targets, method : {"none", "metadata"}]
            /\ Len(sorted) = 0 => match = Nothing
            /\ Len(sorted) > 0 =>
                 /\ match.method = "metadata" /\ counted \in Nat
                 /\ match.target =
                      IF counted >= High
                           /\ ~(Len(sorted) > 1 /\ Tied(counted, sorted[2].score))
                      THEN sorted[1].id ELSE None
                 /\ match.target # None => match.outcome = "matched"
<1> DEFINE r == Scored(Track[x], found)
           sorted == Ranking(r)
           match == ByMetadata(Track[x], found)
           counted == Counted(Track[x], sorted[1])
           rival == Len(sorted) > 1 /\ Tied(counted, sorted[2].score)
<1>1. sorted \in Seq(Candidates)
  BY ScoredHolds, RankingHolds
<1>2. match = IF sorted = << >> THEN Nothing
              ELSE IF Outcome(counted) = "matched" /\ ~rival
                THEN [outcome |-> "matched", target |-> sorted[1].id,
                      method |-> "metadata"]
              ELSE [outcome |-> IF rival /\ Outcome(counted) = "matched"
                                  THEN "ambiguous" ELSE Outcome(counted),
                    target |-> None, method |-> "metadata"]
  BY DEF ByMetadata, Ranking, Counted
<1> HIDE DEF match, sorted, counted, rival
<1>3. CASE Len(sorted) = 0
  <2>1. sorted = << >>
    BY <1>1, <1>3
  <2>2. match = Nothing
    BY <1>2, <2>1
  <2>3. Nothing \in [outcome : {"matched", "ambiguous", "not_found"},
                     target : Targets, method : {"none", "metadata"}]
    BY DEF Nothing, Targets
  <2> QED
    BY <1>3, <2>2, <2>3 DEF match, sorted
<1>4. CASE Len(sorted) # 0
  <2>1. sorted # << >> /\ Len(sorted) > 0 /\ sorted[1] \in Candidates
    BY <1>1, <1>4
  <2>2. counted \in Nat /\ sorted[1].id \in Targets
    BY <2>1, PolicyAssumption DEF counted, Counted, Least, Candidates, Targets
  <2>3. /\ Outcome(counted) \in {"matched", "ambiguous", "not_found"}
        /\ Outcome(counted) = "matched" <=> counted >= High
    BY <2>2, PolicyAssumption DEF Outcome
  <2>4. CASE Outcome(counted) = "matched" /\ ~rival
    <3>1. match = [outcome |-> "matched", target |-> sorted[1].id,
                   method |-> "metadata"]
      BY <1>2, <2>1, <2>4
    <3> QED
      BY <2>1, <2>2, <2>3, <2>4, <3>1 DEF match, sorted, counted, rival
  <2>5. CASE ~(Outcome(counted) = "matched" /\ ~rival)
    <3> DEFINE o == IF rival /\ Outcome(counted) = "matched"
                      THEN "ambiguous" ELSE Outcome(counted)
    <3>1. match = [outcome |-> o, target |-> None, method |-> "metadata"]
      BY <1>2, <2>1, <2>5
    <3>2. o \in {"matched", "ambiguous", "not_found"}
      BY <2>3
    <3> HIDE DEF o
    <3>3. /\ match \in [outcome : {"matched", "ambiguous", "not_found"},
                        target : Targets, method : {"none", "metadata"}]
          /\ match.target = None /\ match.method = "metadata"
      BY <3>1, <3>2 DEF Targets
    <3>4. ~(counted >= High /\ ~rival)
      BY <2>3, <2>5
    <3> QED
      BY <2>1, <2>2, <3>3, <3>4 DEF match, sorted, counted, rival
  <2> QED
    BY <2>4, <2>5
<1> QED
  BY <1>3, <1>4

(* A match has one of three methods, and one that is not made by ISRC is   *)
(* made by ByMetadata: no candidate has the ISRC of the source.            *)
LEMMA MatchHolds ==
  ASSUME NEW x \in DOMAIN Track, NEW found \in Seq(Catalogue)
  PROVE  LET match == Match(Track[x], found)
             same(k) == Track[x].isrc # None /\ Track[found[k]].isrc = Track[x].isrc
         IN /\ match \in [outcome : {"matched", "ambiguous", "not_found"},
                          target : Targets, method : {"none", "metadata", "isrc"}]
            /\ match.method = "isrc" <=> \E k \in 1 .. Len(found) : same(k)
            /\ match.method # "isrc" => match = ByMetadata(Track[x], found)
<1> DEFINE match == Match(Track[x], found)
           S == {c \in ToSet(found) : Track[x].isrc # None
                                        /\ Track[c].isrc = Track[x].isrc}
           same == Sublist(found, S)
<1>1. match = IF same # << >>
                THEN [outcome |-> "matched", target |-> Head(same), method |-> "isrc"]
                ELSE ByMetadata(Track[x], found)
  BY DEF Match
<1>2. \A m \in 1 .. Len(found) :
        found[m] \in S <=> Track[x].isrc # None /\ Track[found[m]].isrc = Track[x].isrc
  BY DEF ToSet
<1> HIDE DEF match, S
<1>3. /\ same \in Seq(Catalogue)
      /\ \A k \in 1 .. Len(same) :
           same[k] \in S /\ \E m \in 1 .. Len(found) : same[k] = found[m]
      /\ \A m \in 1 .. Len(found) :
           found[m] \in S => \E k \in 1 .. Len(same) : same[k] = found[m]
  BY SublistPlaces, SublistHolds
<1> HIDE DEF same
<1>4. CASE same # << >>
  <2>1. Len(same) \in Nat /\ Len(same) > 0 /\ Head(same) \in Catalogue
    BY <1>3, <1>4
  <2>2. \E m \in 1 .. Len(found) : found[m] \in S
    BY <1>3, <2>1
  <2>3. match = [outcome |-> "matched", target |-> Head(same), method |-> "isrc"]
    BY <1>1, <1>4
  <2>4. Head(same) \in Targets
    BY <2>1, PolicyAssumption DEF Targets
  <2>5. /\ match \in [outcome : {"matched", "ambiguous", "not_found"},
                      target : Targets, method : {"none", "metadata", "isrc"}]
        /\ match.method = "isrc"
    BY <2>3, <2>4
  <2> QED
    BY <1>2, <2>2, <2>5 DEF match
<1>5. CASE same = << >>
  <2>1. Len(same) = 0
    BY <1>5
  <2>2. \A m \in 1 .. Len(found) : found[m] \notin S
    BY <1>3, <2>1
  <2>3. match = ByMetadata(Track[x], found)
    BY <1>1, <1>5
  <2>4. match \in [outcome : {"matched", "ambiguous", "not_found"},
                   target : Targets, method : {"none", "metadata"}]
    BY <2>3, MetadataHolds
  <2>5. /\ match \in [outcome : {"matched", "ambiguous", "not_found"},
                      target : Targets, method : {"none", "metadata", "isrc"}]
        /\ match.method # "isrc"
    BY <2>4
  <2> QED
    BY <1>2, <2>2, <2>3, <2>5 DEF match
<1> QED
  BY <1>4, <1>5

(* A match does not change while the settings do not.                      *)
LEMMA MatchUnchanged ==
  ASSUME settings' = settings, NEW s, NEW found
  PROVE  Match(s, found)' = Match(s, found)
<1>1. \A c : Comparable(s, c)' = Comparable(s, c)
  BY DEF Comparable
<1>2. Scored(s, found)' = Scored(s, found)
  BY <1>1 DEF Scored, AllComparable, First
<1>3. ByMetadata(s, found)' = ByMetadata(s, found)
  BY <1>2 DEF ByMetadata
<1> QED
  BY <1>3 DEF Match

(* What a search returns.                                                  *)
LEMMA ResultsAreLists ==
  Results \subseteq Seq(Catalogue)
BY DEF Results, BoundedSeq, SeqOf

(***************************************************************************)
(* The steps of the planner                                                *)
(***************************************************************************)
LEMMA CurrentHolds ==
  ASSUME PlanTypes, Turn
  PROVE  /\ turns \in Seq(Entries) /\ Len(turns) \in Nat /\ Len(turns) > 0
         /\ Current \in Entries /\ Tail(turns) \in Seq(Entries)
         /\ Current.kind \in {"tracks", "albums", "artists", "playlist", "entry"}
         /\ Current.kind \in Favorites => Current.id \in DOMAIN Track
         /\ Current.kind = "entry" => Current.id \in DOMAIN Track \cup {None}
<1>1. turns \in Seq(Entries) /\ turns # << >>
  BY DEF PlanTypes, Turn
<1>2. Len(turns) \in Nat /\ Len(turns) > 0 /\ Current \in Entries /\ Tail(turns) \in Seq(Entries)
  BY <1>1 DEF Current
<1>3. ASSUME NEW e \in Entries
      PROVE  /\ e.kind \in {"tracks", "albums", "artists", "playlist", "entry"}
             /\ e.kind \in Favorites => e.id \in DOMAIN Track
             /\ e.kind = "entry" => e.id \in DOMAIN Track \cup {None}
  BY DEF Entries, Favorites
<1> QED
  BY <1>1, <1>2, <1>3

(* An item more keeps the items a list of items.                           *)
LEMMA PlannedType ==
  ASSUME PlanTypes, Turn, NEW target \in Targets, NEW status \in Statuses
  PROVE  Planned(target, status) \in Seq(Items)
<1>1. [of |-> Current, target |-> target, status |-> status, filed |-> TRUE] \in Items
  BY CurrentHolds DEF Items
<1> QED
  BY <1>1 DEF Planned, PlanTypes

(* The types hold at the start.                                            *)
LEMMA PlanTypesInit ==
  PlanInit => PlanTypes
BY DEF PlanInit, PlanTypes, JobInv

(* Every step keeps the types.                                             *)
LEMMA PlanTypesStep ==
  ASSUME PlanTypes, [PlanNext]_plan
  PROVE  PlanTypes'
<1>1. JobInv'
  <2>1. UNCHANGED <<library, settings>>
    BY DEF PlanNext, plan, SkipIncomplete, Unsupported, StartSection, SkipUnidentified,
           SkipUnresolved, PlanDirect, PlanUntargeted, PlanSearched, EndSection,
           StorePlan, Write, Verify, VerifyRaises, Decided
  <2> QED
    BY <2>1 DEF PlanTypes, JobInv
<1> DEFINE T == /\ phase' \in {"planning", "unsupported", "confirmed", "written",
                               "verified", "unverified"}
                /\ stage' \in Nat \ {0}
                /\ turns' = None \/ turns' \in Seq(Entries)
                /\ items' \in Seq(Items)
<1> SUFFICES T
  BY <1>1 DEF PlanTypes
<1>2. CASE SkipIncomplete
  BY <1>2 DEF SkipIncomplete, PlanTypes
<1>3. CASE Unsupported
  BY <1>3 DEF Unsupported, PlanTypes
<1>4. CASE StartSection
  <2>1. Work \in Seq(Entries)
    BY <1>4, WorkType DEF StartSection, Entering, PlanTypes
  <2> QED
    BY <1>4, <2>1 DEF StartSection, PlanTypes
<1>5. CASE SkipUnidentified \/ SkipUnresolved
  <2>1. Tail(turns) \in Seq(Entries)
    BY <1>5, CurrentHolds DEF SkipUnidentified, SkipUnresolved
  <2> QED
    BY <1>5, <2>1 DEF SkipUnidentified, SkipUnresolved, Advance, Decided, PlanTypes
<1>6. CASE PlanDirect
  <2>1. Turn /\ Tail(turns) \in Seq(Entries) /\ Current.id \in Targets
    BY <1>6, CurrentHolds DEF PlanDirect, Identified, Reusable, Targets, Favorites
  <2>2. items' \in Seq(Items)
    BY <1>6, <2>1, PlannedType DEF PlanDirect, Settled, Statuses
  <2> QED
    BY <1>6, <2>1, <2>2 DEF PlanDirect, Advance, Decided, PlanTypes
<1>7. CASE PlanUntargeted
  <2>1. Turn /\ Tail(turns) \in Seq(Entries)
    BY <1>7, CurrentHolds DEF PlanUntargeted, Identified
  <2>2. items' \in Seq(Items)
    BY <1>7, <2>1, PlannedType DEF PlanUntargeted, Targets, Statuses
  <2> QED
    BY <1>7, <2>1, <2>2 DEF PlanUntargeted, Advance, Decided, PlanTypes
<1>8. CASE \E found \in Results : PlanSearched(found)
  <2>1. PICK found \in Results : PlanSearched(found)
    BY <1>8
  <2> DEFINE match == Match(Track[Current.id], found)
  <2>2. /\ Turn /\ Tail(turns) \in Seq(Entries)
        /\ Current.id \in DOMAIN Track
    BY <2>1, CurrentHolds DEF PlanSearched, Identified, Searchable, Favorites
  <2>3. found \in Seq(Catalogue)
    BY ResultsAreLists
  <2>4. match.target \in Targets /\ match.outcome \in {"matched", "ambiguous", "not_found"}
    BY <2>2, <2>3, MatchHolds
  <2>5. items' = Planned(match.target, Settled(match.target, match.outcome))
        /\ Advance /\ Decided
    BY <2>1 DEF PlanSearched
  <2> HIDE DEF match
  <2>6. items' \in Seq(Items)
    BY <2>2, <2>4, <2>5, PlannedType DEF Settled, Statuses
  <2> QED
    BY <2>2, <2>5, <2>6 DEF Advance, Decided, PlanTypes
<1>9. CASE EndSection
  BY <1>9 DEF EndSection, PlanTypes
<1>10. CASE StorePlan \/ Verify \/ VerifyRaises
  BY <1>10 DEF StorePlan, Verify, VerifyRaises, PlanTypes
<1>11. CASE Write
  <2>1. Len(items) \in Nat /\ DOMAIN items = 1 .. Len(items)
        /\ \A i \in 1 .. Len(items) : items[i] \in Items
    BY DEF PlanTypes
  <2>2. PICK troubled, unfiled :
          items' = [i \in DOMAIN items |->
                      IF i \notin {j \in DOMAIN items : items[j].status = "matched"}
                      THEN items[i]
                      ELSE [items[i] EXCEPT
                              !.status = IF i \in troubled \ unfiled
                                           THEN "failed" ELSE "transferred",
                              !.filed  = i \notin unfiled]]
    <3> DEFINE written == {j \in DOMAIN items : items[j].status = "matched"}
               entries == {j \in written : items[j].of.kind = "entry"}
               after(troubled, unfiled) ==
                 [i \in DOMAIN items |->
                    IF i \notin written THEN items[i]
                    ELSE [items[i] EXCEPT
                            !.status = IF i \in troubled \ unfiled
                                         THEN "failed" ELSE "transferred",
                            !.filed  = i \notin unfiled]]
    <3>1. \E troubled \in {f \in SUBSET written : Cardinality(f) <= MaxFailed} :
            \E unfiled \in SUBSET (troubled \cap entries) :
              items' = after(troubled, unfiled)
      BY <1>11, Zenon DEF Write
    <3>2. \E troubled, unfiled : items' = after(troubled, unfiled)
      <4> HIDE DEF after
      <4> QED
        BY <3>1
    <3> QED
      BY <3>2
  <2>3. \A i \in 1 .. Len(items) : items'[i] \in Items
    <3>1. SUFFICES ASSUME NEW i \in 1 .. Len(items) PROVE items'[i] \in Items
      OBVIOUS
    <3>2. items[i] \in Items
      BY <2>1
    <3>3. \A st \in Statuses, fl \in BOOLEAN :
            [items[i] EXCEPT !.status = st, !.filed = fl] \in Items
      BY <3>2 DEF Items
    <3> QED
      BY <2>1, <2>2, <3>2, <3>3 DEF Statuses
  <2>4. items' = [i \in 1 .. Len(items) |-> items'[i]]
    BY <2>1, <2>2
  <2>5. items' \in Seq(Items)
    BY <2>1, <2>3, <2>4
  <2> QED
    BY <1>11, <2>5 DEF Write, PlanTypes
<1>12. CASE UNCHANGED plan
  BY <1>12 DEF plan, PlanTypes
<1> QED
  BY <1>2, <1>3, <1>4, <1>5, <1>6, <1>7, <1>8, <1>9, <1>10, <1>11, <1>12 DEF PlanNext

(***************************************************************************)
(* What a verdict means                                                    *)
(***************************************************************************)
(* What the account holds when it is verified: a finite set of favourites, *)
(* and lists of tracks.                                                    *)
HeldInv ==
  phase \in {"written", "verified"} =>
    /\ IsFiniteSet(held.favorites)
    /\ \A p \in DOMAIN held.lists : held.lists[p] \in Seq(Targets \cup {Foreign})

(* What was transferred is a list of targets.                              *)
LEMMA TransferredType ==
  ASSUME items \in Seq(Items), NEW wanted
  PROVE  Transferred(wanted) \in Seq(Targets)
<1> DEFINE done == Sublist(items, {i \in wanted : i.status = "transferred"})
<1>1. done \in Seq(Items)
  BY SublistPlaces
<1>2. Transferred(wanted) = [k \in DOMAIN done |-> done[k].target]
  BY DEF Transferred
<1> HIDE DEF done
<1>3. DOMAIN done = 1 .. Len(done) /\ Len(done) \in Nat
  BY <1>1
<1>4. \A k \in 1 .. Len(done) : done[k].target \in Targets
  <2>1. \A i \in Items : i.target \in Targets
    BY DEF Items
  <2>2. \A k \in 1 .. Len(done) : done[k] \in Items
    BY <1>1
  <2> QED
    BY <2>1, <2>2
<1>5. Transferred(wanted) \in [1 .. Len(done) -> Targets]
  BY <1>2, <1>3, <1>4
<1> QED
  BY <1>3, <1>5

(* What is written, and what it leaves.                                    *)
WrittenAt == {i \in DOMAIN items : items[i].status = "matched"}
EntriesAt == {i \in WrittenAt : items[i].of.kind = "entry"}
LikedAt   == {j \in WrittenAt : items[j].of.kind \in Favorites}
LikedNow  == {<<items[i].of.kind, items[i].target>> : i \in LikedAt}
ListsNow  == {items[i].of.list : i \in EntriesAt}
InList(p) == {items[i].target : i \in {j \in EntriesAt : items[j].of.list = p}}

(* The account after the writes, in these names.                           *)
LEMMA WriteLeaves ==
  ASSUME Write
  PROVE  \E contents \in [ListsNow -> UNION {BoundedSeq(InList(p) \cup {Foreign}, MaxHeld) :
                                               p \in ListsNow}],
            gone \in {g \in SUBSET LikedNow : Cardinality(g) <= MaxFailed},
            other \in {o \in SUBSET (Favorites \X {Foreign}) :
                        Cardinality(o) <= MaxFailed} :
           held' = [lists |-> contents, favorites |-> (LikedNow \ gone) \cup other]
BY Zenon DEF Write, WrittenAt, EntriesAt, LikedAt, LikedNow, ListsNow, InList

(* Finitely many favourites are held.                                        *)
LEMMA LikedIsFinite ==
  ASSUME items \in Seq(Items)
  PROVE  IsFiniteSet(LikedNow)
<1>1. IsFiniteSet(DOMAIN items)
  <2>1. DOMAIN items = 1 .. Len(items) /\ Len(items) \in Int
    OBVIOUS
  <2> QED
    BY <2>1, FS_Interval
<1>2. IsFiniteSet(LikedAt)
  <2>1. LikedAt \in SUBSET DOMAIN items
    BY DEF LikedAt, WrittenAt
  <2> QED
    BY <1>1, <2>1, FS_Subset
<1> DEFINE f == [i \in LikedAt |-> <<items[i].of.kind, items[i].target>>]
<1>3. f \in Surjection(LikedAt, LikedNow)
  BY DEF Surjection, LikedNow
<1> HIDE DEF f
<1> QED
  BY <1>2, <1>3, FS_Surjection

(* Every step keeps what is known of the account.                          *)
LEMMA HeldInvStep ==
  ASSUME PlanTypes, HeldInv, [PlanNext]_plan
  PROVE  HeldInv'
<1>1. CASE Write
  <2>1. \A p : InList(p) \subseteq Targets
    <3>1. \A i \in DOMAIN items : items[i].target \in Targets
      <4>1. \A i \in Items : i.target \in Targets
        BY DEF Items
      <4> QED
        BY <4>1 DEF PlanTypes
    <3> QED
      BY <3>1 DEF InList, EntriesAt, WrittenAt
  <2>2. ASSUME NEW p PROVE BoundedSeq(InList(p) \cup {Foreign}, MaxHeld)
                             \subseteq Seq(Targets \cup {Foreign})
    <3>1. SUFFICES ASSUME NEW s \in BoundedSeq(InList(p) \cup {Foreign}, MaxHeld)
                   PROVE  s \in Seq(Targets \cup {Foreign})
      OBVIOUS
    <3>2. PICK m \in 0 .. MaxHeld : s \in [1 .. m -> InList(p) \cup {Foreign}]
      BY <3>1 DEF BoundedSeq, SeqOf
    <3>3. m \in Nat
      BY <3>2, PolicyAssumption
    <3>4. s \in [1 .. m -> Targets \cup {Foreign}]
      BY <2>1, <3>2
    <3> QED
      BY <3>3, <3>4
  <2>3. PICK contents \in [ListsNow -> UNION {BoundedSeq(InList(p) \cup {Foreign}, MaxHeld) :
                                               p \in ListsNow}],
             gone \in {g \in SUBSET LikedNow : Cardinality(g) <= MaxFailed},
             other \in {o \in SUBSET (Favorites \X {Foreign}) :
                         Cardinality(o) <= MaxFailed} :
          held' = [lists |-> contents, favorites |-> (LikedNow \ gone) \cup other]
    BY <1>1, WriteLeaves
  <2>4. IsFiniteSet((LikedNow \ gone) \cup other)
    <3>1. IsFiniteSet(LikedNow)
      BY LikedIsFinite DEF PlanTypes
    <3>2. IsFiniteSet(LikedNow \ gone)
      BY <3>1, FS_Difference
    <3>3. IsFiniteSet(other)
      <4>1. IsFiniteSet(Favorites \X {Foreign})
        <5>1. Favorites \X {Foreign} = {<<"tracks", Foreign>>}
                \cup ({<<"albums", Foreign>>} \cup {<<"artists", Foreign>>})
          BY DEF Favorites
        <5>2. \A x : IsFiniteSet({x})
          BY FS_Singleton
        <5>3. IsFiniteSet({<<"albums", Foreign>>} \cup {<<"artists", Foreign>>})
          BY <5>2, FS_Union
        <5>4. IsFiniteSet({<<"tracks", Foreign>>})
          BY <5>2
        <5> DEFINE F == {<<"tracks", Foreign>>}
                   G == {<<"albums", Foreign>>} \cup {<<"artists", Foreign>>}
        <5>5. IsFiniteSet(F) /\ IsFiniteSet(G) /\ Favorites \X {Foreign} = F \cup G
          BY <5>1, <5>3, <5>4
        <5> HIDE DEF F, G
        <5>6. IsFiniteSet(F \cup G)
          BY <5>5, FS_Union
        <5> QED
          BY <5>5, <5>6
      <4>2. other \in SUBSET (Favorites \X {Foreign})
        BY <2>3
      <4> QED
        BY <4>1, <4>2, FS_Subset
    <3> QED
      BY <3>2, <3>3, FS_Union
  <2>5. ASSUME NEW p \in ListsNow PROVE contents[p] \in Seq(Targets \cup {Foreign})
    <3>1. contents[p] \in UNION {BoundedSeq(InList(q) \cup {Foreign}, MaxHeld) :
                                   q \in ListsNow}
      BY <2>3
    <3>2. PICK q \in ListsNow : contents[p] \in BoundedSeq(InList(q) \cup {Foreign}, MaxHeld)
      BY <3>1
    <3> QED
      BY <2>2, <3>2
  <2>6. held'.favorites = (LikedNow \ gone) \cup other /\ held'.lists = contents
        /\ DOMAIN contents = ListsNow
    BY <2>3
  <2>7. Targets' = Targets
    BY DEF Targets
  <2> QED
    BY <2>4, <2>5, <2>6, <2>7 DEF HeldInv
<1>2. CASE Verify \/ VerifyRaises \/ UNCHANGED plan
  BY <1>2 DEF Verify, VerifyRaises, plan, HeldInv, Targets
<1>3. CASE \/ SkipIncomplete \/ Unsupported \/ StartSection \/ SkipUnidentified
           \/ SkipUnresolved \/ PlanDirect \/ PlanUntargeted
           \/ \E found \in Results : PlanSearched(found)
           \/ EndSection \/ StorePlan
  <2>1. phase' \notin {"written", "verified"}
    BY <1>3 DEF SkipIncomplete, Unsupported, StartSection, SkipUnidentified,
           SkipUnresolved, PlanDirect, PlanUntargeted, PlanSearched, EndSection,
           StorePlan, Decided, Entering, Identified, Turn
  <2> QED
    BY <2>1 DEF HeldInv
<1> QED
  BY <1>1, <1>2, <1>3 DEF PlanNext

(* What a section holds is finite.                                         *)
LEMMA HeldInIsFinite ==
  ASSUME IsFiniteSet(held.favorites), NEW section
  PROVE  IsFiniteSet(HeldIn(section))
<1> DEFINE G == {g \in held.favorites : g[1] = section}
           f == [g \in G |-> g[2]]
<1>1. IsFiniteSet(G)
  <2>1. G \in SUBSET held.favorites
    OBVIOUS
  <2> HIDE DEF G
  <2> QED
    BY <2>1, FS_Subset
<1>2. f \in Surjection(G, HeldIn(section))
  BY DEF Surjection, HeldIn
<1> HIDE DEF f, G
<1> QED
  BY <1>1, <1>2, FS_Surjection

(* Where every transferred entry is stored with its list, the verifier     *)
(* expects what is due.                                                    *)
LEMMA FiledIsDue ==
  ASSUME NEW p, ~Unfiled(p)
  PROVE  OfList(p) = Due(p)
<1> DEFINE all   == {i \in ToSet(items) : i.of.kind = "entry" /\ i.of.list = p}
           filed == {i \in ToSet(items) :
                       i.filed /\ i.of.kind = "entry" /\ i.of.list = p}
<1>1. {i \in all : i.status = "transferred"} = {i \in filed : i.status = "transferred"}
  BY DEF Unfiled
<1>2. Transferred(all) = Transferred(filed)
  BY <1>1 DEF Transferred
<1> QED
  BY <1>2 DEF OfList, Due

(* A favourable verdict on a section of favourites is true.                *)
LEMMA FavoritesAreThere ==
  ASSUME PlanTypes, IsFiniteSet(held.favorites), NEW section,
         OfFavorites(section) # << >>, NEW unread, VerifyFavorites(section, unread)
  PROVE  section \notin unread /\ ToSet(OfFavorites(section)) \subseteq HeldIn(section)
<1> DEFINE s == OfFavorites(section)
           S == IF section \in unread THEN {} ELSE HeldIn(section)
<1>1. s \in Seq(Targets) /\ s # << >>
  BY TransferredType DEF OfFavorites, PlanTypes
<1>2. IsFiniteSet(S)
  BY HeldInIsFinite, FS_EmptySet
<1>3. SameMembers(s, SetToSeq(S))
  BY DEF VerifyFavorites
<1>4. S = {} \/ (section \notin unread /\ S = HeldIn(section))
  OBVIOUS
<1> HIDE DEF s, S
<1>5. ToSet(s) \subseteq S
  BY <1>1, <1>2, <1>3, SameMembersAreThere
<1>6. ToSet(s) # {}
  <2>1. DOMAIN s = 1 .. Len(s) /\ Len(s) \in Nat \ {0}
    BY <1>1
  <2>2. 1 \in DOMAIN s
    BY <2>1
  <2> QED
    BY <2>2 DEF ToSet
<1> QED
  BY <1>4, <1>5, <1>6 DEF s

(* A verification gives true verdicts, and no other step touches them.     *)
LEMMA VerdictStep ==
  ASSUME PlanTypes, HeldInv, VerifiedMeansEqual, [PlanNext]_plan
  PROVE  VerifiedMeansEqual'
<1>1. ASSUME UNCHANGED <<items, held>>
      PROVE  /\ \A p : Due(p)' = Due(p) /\ (Unfiled(p)' <=> Unfiled(p))
             /\ \A c : /\ ToSet(OfFavorites(c))' = ToSet(OfFavorites(c))
                      /\ HeldIn(c)' = HeldIn(c)
  BY <1>1 DEF Due, Unfiled, Transferred, OfFavorites, HeldIn, ToSet
<1>2. CASE Verify
  <2>1. UNCHANGED <<items, held>> /\ phase = "written"
    BY <1>2 DEF Verify
  <2>2. /\ IsFiniteSet(held.favorites)
        /\ \A p \in DOMAIN held.lists : held.lists[p] \in Seq(Targets \cup {Foreign})
    BY <2>1 DEF HeldInv
  <2>3. PICK unread :
          verdicts' =
            [unread    |-> unread,
             lists     |-> [p \in JudgedLists |->
                              /\ "playlists" \notin unread
                              /\ SameSequence(OfList(p), held.lists[p])],
             favorites |-> [c \in JudgedSections |-> VerifyFavorites(c, unread)]]
    BY <1>2 DEF Verify
  <2>4. /\ verdicts'.unread = unread
        /\ DOMAIN verdicts'.lists = JudgedLists
        /\ \A p \in JudgedLists : verdicts'.lists[p] <=>
             /\ "playlists" \notin unread
             /\ SameSequence(OfList(p), held.lists[p])
        /\ DOMAIN verdicts'.favorites = JudgedSections
        /\ \A c \in JudgedSections :
             verdicts'.favorites[c] <=> VerifyFavorites(c, unread)
    BY <2>3
  <2>5. ASSUME NEW p \in DOMAIN held.lists, Due(p) # << >>, ~Unfiled(p)
        PROVE  /\ p \in DOMAIN verdicts'.lists
               /\ verdicts'.lists[p] <=> /\ "playlists" \notin verdicts'.unread
                                         /\ held.lists[p] = Due(p)
    <3>1. OfList(p) = Due(p) /\ p \in JudgedLists
      BY <2>5, FiledIsDue DEF JudgedLists
    <3> DEFINE T == Targets \cup {Foreign}
    <3>2. Due(p) \in Seq(Targets)
      BY TransferredType DEF Due, PlanTypes
    <3>3. Due(p) \in Seq(T) /\ held.lists[p] \in Seq(T)
      BY <2>2, <3>2
    <3>4. SameSequence(Due(p), held.lists[p]) <=> Due(p) = held.lists[p]
      BY <3>3, SameSequenceIsEquality
    <3> QED
      BY <2>4, <3>1, <3>4
  <2>6. ASSUME NEW c \in DOMAIN verdicts'.favorites, verdicts'.favorites[c]
        PROVE  c \notin verdicts'.unread /\ ToSet(OfFavorites(c)) \subseteq HeldIn(c)
    <3>1. c \in JudgedSections /\ VerifyFavorites(c, unread)
      BY <2>4, <2>6
    <3>2. OfFavorites(c) # << >>
      BY <3>1 DEF JudgedSections
    <3> QED
      BY <2>2, <2>4, <3>1, <3>2, FavoritesAreThere
  <2>7. held' = held
    BY <2>1
  <2> QED
    BY <1>1, <2>1, <2>5, <2>6, <2>7 DEF VerifiedMeansEqual
<1>3. CASE UNCHANGED plan
  <2>1. UNCHANGED <<phase, items, held, verdicts>>
    BY <1>3 DEF plan
  <2> QED
    BY <1>1, <2>1 DEF VerifiedMeansEqual
<1>4. CASE PlanNext /\ ~Verify
  <2>1. phase' # "verified"
    BY <1>4 DEF PlanNext, SkipIncomplete, Unsupported, StartSection, SkipUnidentified,
           SkipUnresolved, PlanDirect, PlanUntargeted, PlanSearched, EndSection,
           StorePlan, Write, VerifyRaises, Decided, Entering, Identified, Turn
  <2> QED
    BY <2>1 DEF VerifiedMeansEqual
<1> QED
  BY <1>2, <1>3, <1>4

(* Whatever was planned, written, undone or added by others, a playlist    *)
(* whose transferred entries are all stored with it is judged, and its     *)
(* verdict says whether it was read and holds them in their order and      *)
(* nothing else; a verdict on a section of favourites is never favourable  *)
(* unless it was read and each one transferred is among them.              *)
THEOREM VerdictsAreTrue == PlanSpec => []VerifiedMeansEqual
<1>1. PlanInit => HeldInv /\ VerifiedMeansEqual
  BY DEF PlanInit, HeldInv, VerifiedMeansEqual
<1> QED
  BY <1>1, PlanTypesInit, PlanTypesStep, HeldInvStep, VerdictStep, PTL DEF PlanSpec

(***************************************************************************)
(* What a match made from metadata is                                      *)
(***************************************************************************)
(* The latest search is of a track, and its match is the one the matcher   *)
(* makes of what was found.                                                *)
LatestInv ==
  latest # None =>
    /\ latest.source \in DOMAIN Track
    /\ latest.found \in Seq(Catalogue)
    /\ latest.match = Match(Track[latest.source], latest.found)

(* Only a search changes the latest one, and the settings stay.            *)
LEMMA LatestInvStep ==
  ASSUME PlanTypes, LatestInv, [PlanNext]_plan
  PROVE  LatestInv'
<1>1. settings' = settings
  BY DEF PlanNext, plan, SkipIncomplete, Unsupported, StartSection, SkipUnidentified,
         SkipUnresolved, PlanDirect, PlanUntargeted, PlanSearched, EndSection,
         StorePlan, Write, Verify, VerifyRaises, Decided
<1>2. CASE \E found \in Results : PlanSearched(found)
  <2>1. PICK found \in Results : PlanSearched(found)
    BY <1>2
  <2>2. /\ latest' = [source |-> Current.id, found |-> found,
                      match |-> Match(Track[Current.id], found)]
        /\ Turn /\ Searchable /\ Identified
    BY <2>1 DEF PlanSearched, Identified
  <2>3. Current.id \in DOMAIN Track
    BY <2>2, CurrentHolds DEF Searchable, Favorites, Identified
  <2>4. found \in Seq(Catalogue)
    BY ResultsAreLists
  <2> DEFINE id == Current.id
             match == Match(Track[id], found)
  <2>5. PICK i \in DOMAIN Track : i = id
    BY <2>3
  <2>6. latest' = [source |-> i, found |-> found, match |-> Match(Track[i], found)]
    BY <2>2, <2>5
  <2>7. Match(Track[i], found)' = Match(Track[i], found)
    BY <1>1, MatchUnchanged
  <2> QED
    BY <2>4, <2>6, <2>7 DEF LatestInv
<1>3. CASE latest' = None
  BY <1>3 DEF LatestInv
<1>4. CASE latest' = latest
  <2>1. SUFFICES ASSUME latest # None PROVE LatestInv'
    BY <1>4 DEF LatestInv
  <2>2. PICK source, found, match : /\ source = latest.source
                                    /\ found = latest.found
                                    /\ match = latest.match
    OBVIOUS
  <2>3. source \in DOMAIN Track /\ found \in Seq(Catalogue)
        /\ match = Match(Track[source], found)
    BY <2>1, <2>2 DEF LatestInv
  <2>4. Match(Track[source], found)' = Match(Track[source], found)
    BY <1>1, MatchUnchanged
  <2> QED
    BY <1>4, <2>2, <2>3, <2>4 DEF LatestInv
<1>5. CASE PlanNext /\ ~(\E found \in Results : PlanSearched(found))
  <2>1. latest' = None \/ latest' = latest
    BY <1>5 DEF PlanNext, SkipIncomplete, Unsupported, StartSection, SkipUnidentified,
           SkipUnresolved, PlanDirect, PlanUntargeted, EndSection,
           StorePlan, Write, Verify, VerifyRaises, Decided
  <2> QED
    BY <1>3, <1>4, <2>1
<1>6. CASE UNCHANGED plan
  BY <1>4, <1>6 DEF plan
<1> QED
  BY <1>2, <1>5, <1>6

(* What another version or the other kind of explicit costs is more than   *)
(* a match may lack.                                                       *)
LEMMA DifferentIsNoMatch ==
  ASSUME High > 850000, NEW x \in DOMAIN Track, NEW y \in DOMAIN Track,
         Score(Track[x], Track[y]) >= High
  PROVE  ~VersionsDiffer(Track[x], Track[y]) /\ ~ExplicitDiffers(Track[x], Track[y])
<1> DEFINE score == Score(Track[x], Track[y])
           penalty == Penalty(Track[x], Track[y])
<1>1. /\ VersionsDiffer(Track[x], Track[y]) => penalty >= 200000
      /\ ExplicitDiffers(Track[x], Track[y]) => penalty >= 150000
  BY DEF Penalty
<1>2. score \in Nat /\ penalty \in Nat /\ (score > 0 => score + penalty <= 1000000)
  BY ScoreBounds
<1>3. score >= High /\ High > 850000 /\ High \in Nat
  BY PolicyAssumption
<1> HIDE DEF score, penalty
<1>4. ~(penalty >= 150000) /\ ~(penalty >= 200000)
  BY <1>2, <1>3
<1> QED
  BY <1>1, <1>4

(* Nobody chosen by ByMetadata has a score below High.                     *)
LEMMA ChosenScoresHigh ==
  ASSUME NEW x \in DOMAIN Track, NEW found \in Seq(Catalogue),
         ByMetadata(Track[x], found).target # None
  PROVE  /\ ByMetadata(Track[x], found).target \in DOMAIN Track
         /\ Score(Track[x], Track[ByMetadata(Track[x], found).target]) >= High
<1> DEFINE ranked == Scored(Track[x], found)
           sorted == Ranking(ranked)
           match == ByMetadata(Track[x], found)
           counted == Counted(Track[x], sorted[1])
           key == [c \in ToSet(ranked) |-> -c.score]
<1>1. /\ ranked \in Seq(Candidates)
      /\ \A k \in 1 .. Len(ranked) : ranked[k].score = Score(Track[x], Track[ranked[k].id])
  BY ScoredHolds
<1>2. /\ sorted \in Seq(Candidates) /\ Len(sorted) = Len(ranked)
      /\ \E at : Arranges(sorted, ranked, key, at)
  BY <1>1, RankingHolds
<1>3. /\ match.target \in Targets
      /\ Len(sorted) = 0 => match = Nothing
      /\ Len(sorted) > 0 =>
           /\ counted \in Nat
           /\ match.target = IF counted >= High
                                  /\ ~(Len(sorted) > 1 /\ Tied(counted, sorted[2].score))
                             THEN sorted[1].id ELSE None
  BY MetadataHolds
<1>4. counted = Counted(Track[x], sorted[1])
  OBVIOUS
<1>5. match.target # None
  OBVIOUS
<1> HIDE DEF ranked, sorted, match, counted, key
<1>6. Len(sorted) > 0
  BY <1>2, <1>3, <1>5 DEF Nothing
<1>7. counted >= High /\ match.target = sorted[1].id
  BY <1>3, <1>5, <1>6
<1>8. sorted[1] \in Candidates /\ sorted[1].score = Score(Track[x], Track[sorted[1].id])
  <2>1. PICK at : Arranges(sorted, ranked, key, at)
    BY <1>2
  <2>2. DOMAIN ranked = 1 .. Len(ranked) /\ Len(ranked) \in Nat
    BY <1>1
  <2>3. sorted[1] = ranked[at[1]] /\ at[1] \in 1 .. Len(ranked)
    <3>1. 1 \in DOMAIN ranked
      <4>1. Len(ranked) > 0
        BY <1>2, <1>6
      <4> QED
        BY <2>2, <4>1
    <3>2. /\ at \in [DOMAIN ranked -> DOMAIN ranked]
          /\ \A k \in DOMAIN ranked : sorted[k] = ranked[at[k]]
      BY <2>1 DEF Arranges
    <3> QED
      BY <2>2, <3>1, <3>2
  <2>4. sorted[1] \in Candidates
    BY <1>2, <1>6
  <2> QED
    BY <1>1, <2>3, <2>4
<1>9. sorted[1].score \in Nat /\ sorted[1].id \in Catalogue
  BY <1>8 DEF Candidates
<1>10. counted <= sorted[1].score
  BY <1>4, <1>9, PolicyAssumption DEF Counted, Least
<1>11. sorted[1].score >= High
  BY <1>3, <1>6, <1>7, <1>9, <1>10, PolicyAssumption
<1> QED
  BY <1>7, <1>8, <1>9, <1>11, PolicyAssumption DEF match

(* A match made from metadata has the qualifiers that the normalisation    *)
(* finds in the title of its source, and not the other explicit flag where *)
(* both are known, provided a match needs more than 0.85 (the policy's own *)
(* threshold is 0.88). What only the version field or another dash says is *)
(* no such qualifier (normalization.py).                                   *)
THEOREM MatchesKeepQualifiers ==
  ASSUME High > 850000
  PROVE  PlanSpec => []SameQualifiers
<1>1. ASSUME LatestInv PROVE SameQualifiers
  <2>1. SUFFICES ASSUME latest # None, latest.match.method = "metadata",
                        latest.match.target # None
                 PROVE  /\ Qualifiers(Track[latest.source])
                             = Qualifiers(Track[latest.match.target])
                        /\ \/ None \in {Track[latest.source].explicit,
                                        Track[latest.match.target].explicit}
                           \/ Track[latest.source].explicit
                                = Track[latest.match.target].explicit
    BY DEF SameQualifiers
  <2>2. /\ latest.source \in DOMAIN Track /\ latest.found \in Seq(Catalogue)
        /\ latest.match = Match(Track[latest.source], latest.found)
    BY <1>1, <2>1 DEF LatestInv
  <2>3. latest.match = ByMetadata(Track[latest.source], latest.found)
    <3>1. Match(Track[latest.source], latest.found).method # "isrc"
      BY <2>1, <2>2
    <3> QED
      BY <2>2, <3>1, MatchHolds
  <2>4. /\ latest.match.target \in DOMAIN Track
        /\ Score(Track[latest.source], Track[latest.match.target]) >= High
    BY <2>1, <2>2, <2>3, ChosenScoresHigh
  <2>5. /\ ~VersionsDiffer(Track[latest.source], Track[latest.match.target])
        /\ ~ExplicitDiffers(Track[latest.source], Track[latest.match.target])
    BY <2>2, <2>4, DifferentIsNoMatch
  <2> QED
    BY <2>5 DEF VersionsDiffer, ExplicitDiffers
<1>2. PlanInit => LatestInv
  BY DEF PlanInit, LatestInv
<1> QED
  BY <1>1, <1>2, PlanTypesInit, PlanTypesStep, LatestInvStep, PTL DEF PlanSpec

(***************************************************************************)
(* Who is chosen                                                           *)
(***************************************************************************)
(* A place of a search result that is looked at and can be compared.       *)
Fits(s, found, k) ==
  k <= MaxCandidates /\ Comparable(s, Track[found[k]])

(* The score of a place, and what it counts once a clean replacement is    *)
(* held down.                                                              *)
PlaceScore(s, found, k) == Score(s, Track[found[k]])
PlaceCounted(s, found, k) ==
  Counted(s, [id |-> found[k], score |-> PlaceScore(s, found, k)])

(* The one that is chosen: it counts enough, and no other comes near.      *)
Wins(s, found, k) ==
  /\ Fits(s, found, k)
  /\ PlaceCounted(s, found, k) >= High
  /\ \A j \in 1 .. Len(found) :
       j # k /\ Fits(s, found, j)
         => ~Tied(PlaceCounted(s, found, k), PlaceScore(s, found, j))

(* The ranking holds each place that fits once, the highest score first.   *)
LEMMA RankedPlaces ==
  ASSUME NEW x \in DOMAIN Track, NEW found \in Seq(Catalogue)
  PROVE  LET sorted == Ranking(Scored(Track[x], found))
             s == Track[x]
         IN /\ Len(sorted) \in Nat
            /\ \E to \in [1 .. Len(sorted) -> 1 .. Len(found)] :
                 /\ \A m \in 1 .. Len(sorted) :
                      /\ Fits(s, found, to[m])
                      /\ sorted[m] = [id |-> found[to[m]],
                                      score |-> PlaceScore(s, found, to[m])]
                 /\ \A m, n \in 1 .. Len(sorted) : m < n =>
                      /\ to[m] # to[n]
                      /\ sorted[m].score >= sorted[n].score
                 /\ \A k \in 1 .. Len(found) : Fits(s, found, k) =>
                      \E m \in 1 .. Len(sorted) : to[m] = k
<1> DEFINE s == Track[x]
           first == First(s, found)
           ranked == Scored(s, found)
           sorted == Ranking(ranked)
           key == [c \in ToSet(ranked) |-> -c.score]
           fitting == Fitting(s, found)
<1>1. /\ first \in Seq(Candidates) /\ Len(first) = Least(MaxCandidates, Len(found))
      /\ Len(first) \in Nat /\ Len(first) <= Len(found)
      /\ \A k \in 1 .. Len(first) : /\ first[k].id = found[k]
                                    /\ first[k].score = PlaceScore(s, found, k)
  BY FirstHolds DEF PlaceScore
<1>2. ranked = Sublist(first, fitting) /\ ranked \in Seq(Candidates)
  BY ScoredHolds
<1>3. /\ sorted \in Seq(Candidates) /\ Len(sorted) = Len(ranked)
      /\ \E at : /\ Arranges(sorted, ranked, key, at)
                 /\ \A j, k \in 1 .. Len(ranked) : j < k =>
                      sorted[j].score >= sorted[k].score
  BY <1>2, RankingHolds
<1>4. \A k \in 1 .. Len(first) : first[k] \in fitting <=> Comparable(s, Track[found[k]])
  <2>1. \A k \in 1 .. Len(first) : first[k] \in ToSet(first)
    BY <1>1 DEF ToSet
  <2> QED
    BY <1>1, <2>1 DEF Fitting
<1>5. \A k \in 1 .. Len(found) :
        Fits(s, found, k) <=> k \in 1 .. Len(first) /\ Comparable(s, Track[found[k]])
  BY <1>1, PolicyAssumption DEF Fits, Least
<1>7. \A i \in DOMAIN ranked : ~Before(ranked, key, i, i)
  <2>1. \A i \in DOMAIN ranked : ranked[i] \in ToSet(ranked) /\ ranked[i].score \in Nat
    <3>1. \A i \in DOMAIN ranked : ranked[i] \in ToSet(ranked)
      BY DEF ToSet
    <3>2. \A i \in DOMAIN ranked : ranked[i] \in Candidates
      <4> HIDE DEF ranked
      <4> QED
        BY <1>2
    <3> HIDE DEF ranked
    <3> QED
      BY <3>1, <3>2 DEF Candidates
  <2>2. \A i \in DOMAIN ranked : key[ranked[i]] = -ranked[i].score
    BY <2>1
  <2>3. \A i \in DOMAIN ranked : key[ranked[i]] \in Int
    BY <2>1, <2>2
  <2>4. DOMAIN ranked = 1 .. Len(ranked) /\ Len(ranked) \in Nat
    BY <1>2
  <2> HIDE DEF key, ranked
  <2> QED
    BY <2>3, <2>4, BeforeIsAnOrder
<1> HIDE DEF s, first, ranked, sorted, key, fitting
<1>6. \A k \in 1 .. Len(first) :
        first[k] = [id |-> found[k], score |-> PlaceScore(s, found, k)]
  <2>1. \A k \in 1 .. Len(first) : first[k] \in Candidates
    BY <1>1
  <2>2. \A c \in Candidates : c = [id |-> c.id, score |-> c.score]
    BY DEF Candidates
  <2>3. \A k \in 1 .. Len(first) :
          first[k] = [id |-> first[k].id, score |-> first[k].score]
    BY <2>1, <2>2
  <2>4. \A k \in 1 .. Len(first) : /\ first[k].id = found[k]
                                   /\ first[k].score = PlaceScore(s, found, k)
    BY <1>1
  <2>5. ASSUME NEW k \in 1 .. Len(first)
        PROVE  first[k] = [id |-> found[k], score |-> PlaceScore(s, found, k)]
    <3>1. first[k].id = found[k] /\ first[k].score = PlaceScore(s, found, k)
      BY <2>4
    <3>2. first[k] = [id |-> first[k].id, score |-> first[k].score]
      BY <2>3
    <3> QED
      BY ONLY <3>1, <3>2, Zenon
  <2> QED
    BY <2>5
<1>8. PICK place : Places(ranked, first, fitting, Len(first), place)
  BY <1>1, <1>2, SublistPlaces
<1>9. PICK at : /\ Arranges(sorted, ranked, key, at)
                /\ \A j, k \in 1 .. Len(ranked) : j < k =>
                     sorted[j].score >= sorted[k].score
  BY <1>3
<1>10. /\ Len(ranked) \in Nat /\ DOMAIN ranked = 1 .. Len(ranked)
       /\ Len(sorted) = Len(ranked)
  BY <1>2, <1>3
<1> DEFINE to == [m \in 1 .. Len(sorted) |-> place[at[m]]]
<1>11. /\ at \in [1 .. Len(ranked) -> 1 .. Len(ranked)]
       /\ \A m \in 1 .. Len(ranked) : \E k \in 1 .. Len(ranked) : at[k] = m
       /\ \A k \in 1 .. Len(ranked) : sorted[k] = ranked[at[k]]
       /\ \A j, k \in 1 .. Len(ranked) : j < k => Before(ranked, key, at[j], at[k])
  BY <1>9, <1>10 DEF Arranges
<1>12. /\ place \in [1 .. Len(ranked) -> 1 .. Len(first)]
       /\ \A k \in 1 .. Len(ranked) : ranked[k] = first[place[k]] /\ ranked[k] \in fitting
       /\ \A j, k \in 1 .. Len(ranked) : j <= k => place[j] + (k - j) <= place[k]
       /\ \A m \in 1 .. Len(first) :
            first[m] \in fitting => \E k \in 1 .. Len(ranked) : place[k] = m
  BY <1>8 DEF Places
<1>13. \A m \in 1 .. Len(sorted) : /\ to[m] = place[at[m]] /\ at[m] \in 1 .. Len(ranked)
                                   /\ to[m] \in 1 .. Len(first)
                                   /\ to[m] \in 1 .. Len(found)
                                   /\ sorted[m] = first[to[m]] /\ first[to[m]] \in fitting
  <2>1. \A m \in 1 .. Len(sorted) : at[m] \in 1 .. Len(ranked) /\ sorted[m] = ranked[at[m]]
    BY <1>10, <1>11
  <2>2. \A k \in 1 .. Len(ranked) : /\ place[k] \in 1 .. Len(first)
                                    /\ ranked[k] = first[place[k]]
                                    /\ first[place[k]] \in fitting
    BY <1>12
  <2>3. \A m \in 1 .. Len(sorted) : to[m] = place[at[m]]
    OBVIOUS
  <2>4. \A m \in 1 .. Len(first) : m \in 1 .. Len(found)
    BY <1>1
  <2> HIDE DEF to
  <2> QED
    BY <2>1, <2>2, <2>3, <2>4
<1>14. to \in [1 .. Len(sorted) -> 1 .. Len(found)]
  BY <1>13
<1>15. ASSUME NEW m \in 1 .. Len(sorted)
       PROVE  /\ Fits(s, found, to[m])
              /\ sorted[m] = [id |-> found[to[m]], score |-> PlaceScore(s, found, to[m])]
  BY <1>4, <1>5, <1>6, <1>13
<1>16. ASSUME NEW m \in 1 .. Len(sorted), NEW n \in 1 .. Len(sorted), m < n
       PROVE  to[m] # to[n]
  <2>1. at[m] \in 1 .. Len(ranked) /\ at[n] \in 1 .. Len(ranked) /\ at[m] # at[n]
    <3>1. at[m] \in 1 .. Len(ranked) /\ at[n] \in 1 .. Len(ranked)
      BY <1>10, <1>11
    <3>2. Before(ranked, key, at[m], at[n])
      BY <1>10, <1>11, <1>16
    <3>3. ~Before(ranked, key, at[m], at[m])
      BY <1>7, <1>10, <3>1
    <3> QED
      BY <3>1, <3>2, <3>3
  <2>2. ASSUME NEW i \in 1 .. Len(ranked), NEW j \in 1 .. Len(ranked), i < j
        PROVE  place[i] # place[j]
    <3>1. place[i] \in Int /\ place[j] \in Int
      <4>1. place[i] \in 1 .. Len(first) /\ place[j] \in 1 .. Len(first)
        BY <1>12
      <4> QED
        BY <1>1, <4>1
    <3>2. i \in Int /\ j \in Int /\ i <= j
      BY <1>10, <2>2
    <3>3. place[i] + (j - i) <= place[j]
      BY <1>12, <3>2
    <3> QED
      BY <2>2, <3>1, <3>2, <3>3
  <2>3. place[at[m]] # place[at[n]]
    <3>1. at[m] < at[n] \/ at[n] < at[m]
      BY <2>1
    <3> QED
      BY <2>1, <2>2, <3>1
  <2> QED
    BY <1>13, <2>3
<1>17. ASSUME NEW k \in 1 .. Len(found), Fits(s, found, k)
       PROVE  \E m \in 1 .. Len(sorted) : to[m] = k
  <2>1. k \in 1 .. Len(first) /\ first[k] \in fitting
    BY <1>4, <1>5, <1>17
  <2>2. PICK i \in 1 .. Len(ranked) : place[i] = k
    BY <1>12, <2>1
  <2>3. PICK m \in 1 .. Len(ranked) : at[m] = i
    BY <1>11
  <2> QED
    BY <1>10, <1>13, <2>2, <2>3
<1>18. \A m, n \in 1 .. Len(sorted) : m < n => sorted[m].score >= sorted[n].score
  BY <1>9, <1>10
<1> HIDE DEF to
<1> QED
  BY <1>10, <1>14, <1>15, <1>16, <1>17, <1>18 DEF s, sorted, ranked

(* ByMetadata chooses who wins, and nobody when nobody does: it depends on *)
(* the places of the result, not on their order.                           *)
LEMMA WinnerIsChosen ==
  ASSUME NEW x \in DOMAIN Track, NEW found \in Seq(Catalogue)
  PROVE  LET target == ByMetadata(Track[x], found).target
         IN /\ target # None =>
                 \E k \in 1 .. Len(found) : Wins(Track[x], found, k) /\ target = found[k]
            /\ \A k \in 1 .. Len(found) : Wins(Track[x], found, k) => target = found[k]
<1> DEFINE s == Track[x]
           sorted == Ranking(Scored(s, found))
           match == ByMetadata(s, found)
           counted == Counted(s, sorted[1])
<1>1. /\ Len(sorted) = 0 => match = Nothing
      /\ Len(sorted) > 0 =>
           match.target = IF counted >= High
                               /\ ~(Len(sorted) > 1 /\ Tied(counted, sorted[2].score))
                          THEN sorted[1].id ELSE None
  BY MetadataHolds
<1>2. /\ Len(sorted) \in Nat
      /\ \E to \in [1 .. Len(sorted) -> 1 .. Len(found)] :
           /\ \A m \in 1 .. Len(sorted) :
                /\ Fits(s, found, to[m])
                /\ sorted[m] = [id |-> found[to[m]],
                                score |-> PlaceScore(s, found, to[m])]
           /\ \A m, n \in 1 .. Len(sorted) : m < n =>
                /\ to[m] # to[n]
                /\ sorted[m].score >= sorted[n].score
           /\ \A k \in 1 .. Len(found) : Fits(s, found, k) =>
                \E m \in 1 .. Len(sorted) : to[m] = k
  BY RankedPlaces
<1>3. \A k \in 1 .. Len(found) : /\ PlaceScore(s, found, k) \in Nat
                                 /\ PlaceCounted(s, found, k) \in Nat
                                 /\ PlaceCounted(s, found, k) <= PlaceScore(s, found, k)
                                 /\ found[k] \in DOMAIN Track
  <2>1. SUFFICES ASSUME NEW k \in 1 .. Len(found)
                 PROVE  /\ PlaceScore(s, found, k) \in Nat
                        /\ PlaceCounted(s, found, k) \in Nat
                        /\ PlaceCounted(s, found, k) <= PlaceScore(s, found, k)
                        /\ found[k] \in DOMAIN Track
    OBVIOUS
  <2>2. found[k] \in DOMAIN Track
    BY PolicyAssumption
  <2>3. PlaceScore(s, found, k) \in Nat
    BY <2>2, ScoreBounds DEF PlaceScore
  <2> QED
    BY <2>2, <2>3, PolicyAssumption DEF PlaceCounted, Counted, Least
<1>4. Len(sorted) > 0 => counted = Counted(s, sorted[1])
  OBVIOUS
<1> HIDE DEF s, sorted, match, counted
<1>5. PICK to \in [1 .. Len(sorted) -> 1 .. Len(found)] :
         /\ \A m \in 1 .. Len(sorted) :
              /\ Fits(s, found, to[m])
              /\ sorted[m] = [id |-> found[to[m]],
                              score |-> PlaceScore(s, found, to[m])]
         /\ \A m, n \in 1 .. Len(sorted) : m < n =>
              /\ to[m] # to[n]
              /\ sorted[m].score >= sorted[n].score
         /\ \A k \in 1 .. Len(found) : Fits(s, found, k) =>
              \E m \in 1 .. Len(sorted) : to[m] = k
  BY <1>2
<1>6. \A m \in 1 .. Len(sorted) : /\ to[m] \in 1 .. Len(found)
                                  /\ sorted[m].id = found[to[m]]
                                  /\ sorted[m].score = PlaceScore(s, found, to[m])
  <2>1. SUFFICES ASSUME NEW m \in 1 .. Len(sorted)
                 PROVE  /\ to[m] \in 1 .. Len(found)
                        /\ sorted[m].id = found[to[m]]
                        /\ sorted[m].score = PlaceScore(s, found, to[m])
    OBVIOUS
  <2>2. sorted[m] = [id |-> found[to[m]], score |-> PlaceScore(s, found, to[m])]
    BY <1>5
  <2> QED
    BY <2>2
<1>7. Len(sorted) > 0 => counted = PlaceCounted(s, found, to[1])
  <2>1. SUFFICES ASSUME Len(sorted) > 0 PROVE counted = PlaceCounted(s, found, to[1])
    OBVIOUS
  <2>2. sorted[1] = [id |-> found[to[1]], score |-> PlaceScore(s, found, to[1])]
    BY <1>2, <1>5, <2>1
  <2> QED
    BY <1>4, <2>1, <2>2 DEF PlaceCounted
<1>8. ASSUME match.target # None
      PROVE  \E k \in 1 .. Len(found) : Wins(s, found, k) /\ match.target = found[k]
  <2>1. Len(sorted) > 0
    BY <1>1, <1>2, <1>8 DEF Nothing
  <2>2. /\ counted >= High /\ match.target = sorted[1].id
        /\ ~(Len(sorted) > 1 /\ Tied(counted, sorted[2].score))
    BY <1>1, <1>8, <2>1
  <2> DEFINE k == to[1]
  <2>3. k \in 1 .. Len(found) /\ Fits(s, found, k) /\ match.target = found[k]
        /\ PlaceCounted(s, found, k) = counted
    <3>1. 1 \in 1 .. Len(sorted)
      BY <1>2, <2>1
    <3>2. k \in 1 .. Len(found) /\ Fits(s, found, k) /\ sorted[1].id = found[k]
      BY <1>5, <1>6, <3>1
    <3> QED
      BY <1>7, <2>1, <2>2, <3>2
  <2>4. ASSUME NEW j \in 1 .. Len(found), j # k, Fits(s, found, j)
        PROVE  ~Tied(PlaceCounted(s, found, k), PlaceScore(s, found, j))
    <3>1. PICK m \in 1 .. Len(sorted) : to[m] = j
      BY <1>5, <2>4
    <3>2. m # 1 /\ Len(sorted) > 1 /\ 2 \in 1 .. Len(sorted)
      BY <1>2, <2>4, <3>1
    <3>3. ~Tied(counted, sorted[2].score)
      BY <2>2, <3>2
    <3>4. sorted[2].score \in Nat /\ sorted[m].score = PlaceScore(s, found, j)
          /\ PlaceScore(s, found, j) \in Nat /\ counted \in Nat
      BY <1>3, <1>6, <2>3, <3>1, <3>2
    <3>5. m = 2 \/ 2 < m
      BY <1>2, <3>2
    <3>6. sorted[2].score >= sorted[m].score
      BY <1>5, <3>2, <3>4, <3>5
    <3> QED
      BY <2>3, <3>3, <3>4, <3>6 DEF Tied
  <2> HIDE DEF k
  <2> QED
    BY <2>2, <2>3, <2>4 DEF Wins
<1>9. ASSUME NEW k \in 1 .. Len(found), Wins(s, found, k)
      PROVE  match.target = found[k]
  <2>1. /\ Fits(s, found, k) /\ PlaceCounted(s, found, k) >= High
        /\ \A j \in 1 .. Len(found) :
             j # k /\ Fits(s, found, j)
               => ~Tied(PlaceCounted(s, found, k), PlaceScore(s, found, j))
    BY <1>9 DEF Wins
  <2>2. PICK m \in 1 .. Len(sorted) : to[m] = k
    BY <1>5, <2>1
  <2>3. Len(sorted) > 0 /\ 1 \in 1 .. Len(sorted)
    BY <1>2, <2>2
  <2>4. m = 1
    <3>1. SUFFICES ASSUME 1 < m PROVE FALSE
      BY <1>2, <2>2
    <3>2. to[1] # k /\ sorted[1].score >= sorted[m].score
      BY <1>5, <2>2, <2>3, <3>1
    <3>3. to[1] \in 1 .. Len(found) /\ Fits(s, found, to[1])
      BY <1>5, <2>3
    <3>4. ~Tied(PlaceCounted(s, found, k), PlaceScore(s, found, to[1]))
      BY <2>1, <3>2, <3>3
    <3>5. PlaceScore(s, found, to[1]) >= PlaceScore(s, found, k)
      BY <1>6, <2>2, <2>3, <3>2
    <3>6. /\ PlaceScore(s, found, to[1]) \in Nat /\ PlaceScore(s, found, k) \in Nat
          /\ PlaceCounted(s, found, k) \in Nat
          /\ PlaceCounted(s, found, k) <= PlaceScore(s, found, k)
      BY <1>3, <3>3
    <3> QED
      BY <3>4, <3>5, <3>6 DEF Tied
  <2>5. counted >= High /\ sorted[1].id = found[k]
    BY <1>6, <1>7, <2>1, <2>2, <2>3, <2>4
  <2>6. ~(Len(sorted) > 1 /\ Tied(counted, sorted[2].score))
    <3>1. SUFFICES ASSUME Len(sorted) > 1 PROVE ~Tied(counted, sorted[2].score)
      OBVIOUS
    <3>2. 2 \in 1 .. Len(sorted) /\ to[1] # to[2]
      BY <1>2, <1>5, <2>3, <3>1
    <3>3. to[2] \in 1 .. Len(found) /\ Fits(s, found, to[2]) /\ to[2] # k
          /\ sorted[2].score = PlaceScore(s, found, to[2])
      BY <1>5, <1>6, <2>2, <2>4, <3>2
    <3>4. ~Tied(PlaceCounted(s, found, k), PlaceScore(s, found, to[2]))
      BY <2>1, <3>3
    <3> QED
      BY <1>7, <2>2, <2>3, <2>4, <3>3, <3>4
  <2> QED
    BY <1>1, <2>3, <2>5, <2>6
<1> QED
  BY <1>8, <1>9 DEF match, s

(* Winning is a matter of the places, whatever order they are put in.      *)
LEMMA OrderDecidesNothing ==
  ASSUME NEW x \in DOMAIN Track, NEW found \in Seq(Catalogue),
         Len(found) <= MaxCandidates,
         Match(Track[x], found).method = "metadata",
         NEW f \in Bijection(DOMAIN found, DOMAIN found)
  PROVE  Match(Track[x], [k \in DOMAIN f |-> found[f[k]]]).target
           = Match(Track[x], found).target
<1> DEFINE s == Track[x]
           n == Len(found)
           other == [k \in DOMAIN f |-> found[f[k]]]
<1>1. n \in Nat /\ DOMAIN found = 1 .. n /\ \A k \in 1 .. n : found[k] \in Catalogue
  OBVIOUS
<1>2. /\ f \in [1 .. n -> 1 .. n]
      /\ \A w \in 1 .. n : \E v \in 1 .. n : f[v] = w
  BY <1>1 DEF Bijection, Surjection
<1>4. \A j, k \in 1 .. n : f[j] = f[k] => j = k
  BY <1>1 DEF Bijection, Injection, IsInjective
<1>5. /\ other \in Seq(Catalogue) /\ Len(other) = n
      /\ \A k \in 1 .. n : other[k] = found[f[k]] /\ f[k] \in 1 .. n
  <2>1. other = [k \in 1 .. n |-> found[f[k]]]
    BY <1>2
  <2>2. \A k \in 1 .. n : f[k] \in 1 .. n /\ found[f[k]] \in Catalogue
    BY <1>1, <1>2
  <2>3. other \in [1 .. n -> Catalogue]
    BY <2>1, <2>2
  <2> HIDE DEF other, n
  <2>4. other \in Seq(Catalogue) /\ Len(other) = n
    BY <1>1, <2>3
  <2>5. \A k \in 1 .. n : other[k] = found[f[k]]
    BY <2>1
  <2> QED
    BY <2>2, <2>4, <2>5
<1>6. n <= MaxCandidates
  OBVIOUS
<1> HIDE DEF other, n, s
<1>7. ASSUME NEW k \in 1 .. n
      PROVE  Wins(s, other, k) <=> Wins(s, found, f[k])
  <2>1. /\ f[k] \in 1 .. n /\ other[k] = found[f[k]]
        /\ k <= MaxCandidates /\ f[k] <= MaxCandidates
    BY <1>1, <1>5, <1>6, PolicyAssumption
  <2>2. \A j \in 1 .. n : /\ Fits(s, other, j) <=> Fits(s, found, f[j])
                          /\ PlaceScore(s, other, j) = PlaceScore(s, found, f[j])
    <3>1. \A j \in 1 .. n : /\ other[j] = found[f[j]] /\ f[j] \in 1 .. n
                            /\ j <= MaxCandidates /\ f[j] <= MaxCandidates
      BY <1>1, <1>5, <1>6, PolicyAssumption
    <3> QED
      BY <3>1 DEF Fits, PlaceScore
  <2>3. PlaceCounted(s, other, k) = PlaceCounted(s, found, f[k])
    BY <2>1, <2>2 DEF PlaceCounted
  <2> DEFINE Alone(t, i) ==
        \A j \in 1 .. n :
          j # i /\ Fits(s, t, j) => ~Tied(PlaceCounted(s, t, i), PlaceScore(s, t, j))
  <2>4. Alone(other, k) <=> Alone(found, f[k])
    <3>1. ASSUME Alone(other, k), NEW w \in 1 .. n, w # f[k], Fits(s, found, w)
          PROVE  ~Tied(PlaceCounted(s, found, f[k]), PlaceScore(s, found, w))
      <4>1. PICK j \in 1 .. n : f[j] = w
        BY <1>2
      <4>2. j # k /\ Fits(s, other, j)
        BY <2>2, <3>1, <4>1
      <4>3. ~Tied(PlaceCounted(s, other, k), PlaceScore(s, other, j))
        BY <3>1, <4>2
      <4> QED
        BY <2>2, <2>3, <4>1, <4>3
    <3>2. ASSUME Alone(found, f[k]), NEW j \in 1 .. n, j # k, Fits(s, other, j)
          PROVE  ~Tied(PlaceCounted(s, other, k), PlaceScore(s, other, j))
      <4>1. f[j] \in 1 .. n /\ f[j] # f[k] /\ Fits(s, found, f[j])
        BY <1>4, <1>5, <2>2, <3>2
      <4>2. ~Tied(PlaceCounted(s, found, f[k]), PlaceScore(s, found, f[j]))
        BY <3>2, <4>1
      <4> QED
        BY <2>2, <2>3, <4>2
    <3> QED
      BY <3>1, <3>2
  <2>5. /\ Wins(s, other, k) <=> /\ Fits(s, other, k)
                                 /\ PlaceCounted(s, other, k) >= High
                                 /\ Alone(other, k)
        /\ Wins(s, found, f[k]) <=> /\ Fits(s, found, f[k])
                                    /\ PlaceCounted(s, found, f[k]) >= High
                                    /\ Alone(found, f[k])
    BY <1>5 DEF Wins, n
  <2> HIDE DEF Alone
  <2> QED
    BY <2>2, <2>3, <2>4, <2>5
<1>8. /\ Match(s, found) = ByMetadata(s, found)
      /\ Match(s, other) = ByMetadata(s, other)
  <2>1. /\ Match(s, found).method = "isrc" <=>
             \E k \in 1 .. n : s.isrc # None /\ Track[found[k]].isrc = s.isrc
        /\ Match(s, other).method = "isrc" <=>
             \E k \in 1 .. n : s.isrc # None /\ Track[other[k]].isrc = s.isrc
        /\ Match(s, found).method # "isrc" => Match(s, found) = ByMetadata(s, found)
        /\ Match(s, other).method # "isrc" => Match(s, other) = ByMetadata(s, other)
    <3>1. /\ Match(s, found).method = "isrc" <=>
               \E k \in 1 .. Len(found) : s.isrc # None /\ Track[found[k]].isrc = s.isrc
          /\ Match(s, found).method # "isrc" => Match(s, found) = ByMetadata(s, found)
      BY MatchHolds DEF s
    <3>2. /\ Match(s, other).method = "isrc" <=>
               \E k \in 1 .. Len(other) : s.isrc # None /\ Track[other[k]].isrc = s.isrc
          /\ Match(s, other).method # "isrc" => Match(s, other) = ByMetadata(s, other)
      BY <1>5, MatchHolds DEF s
    <3> QED
      BY <1>5, <3>1, <3>2 DEF n
  <2>2. Match(s, found).method # "isrc"
    BY DEF s
  <2>3. ~(\E k \in 1 .. n : s.isrc # None /\ Track[other[k]].isrc = s.isrc)
    BY <1>5, <2>1, <2>2
  <2> QED
    BY <2>1, <2>2, <2>3
<1>9. /\ ByMetadata(s, found).target # None =>
           \E k \in 1 .. n : Wins(s, found, k) /\ ByMetadata(s, found).target = found[k]
      /\ ByMetadata(s, other).target # None =>
           \E k \in 1 .. n : Wins(s, other, k) /\ ByMetadata(s, other).target = other[k]
      /\ \A k \in 1 .. n : Wins(s, found, k) => ByMetadata(s, found).target = found[k]
      /\ \A k \in 1 .. n : Wins(s, other, k) => ByMetadata(s, other).target = other[k]
  <2>1. /\ ByMetadata(s, found).target # None =>
             \E k \in 1 .. Len(found) :
               Wins(s, found, k) /\ ByMetadata(s, found).target = found[k]
        /\ \A k \in 1 .. Len(found) :
             Wins(s, found, k) => ByMetadata(s, found).target = found[k]
    BY WinnerIsChosen DEF s
  <2>2. /\ ByMetadata(s, other).target # None =>
             \E k \in 1 .. Len(other) :
               Wins(s, other, k) /\ ByMetadata(s, other).target = other[k]
        /\ \A k \in 1 .. Len(other) :
             Wins(s, other, k) => ByMetadata(s, other).target = other[k]
    BY <1>5, WinnerIsChosen DEF s
  <2> QED
    BY <1>5, <2>1, <2>2 DEF n
<1>10. CASE ByMetadata(s, found).target # None
  <2>1. PICK w \in 1 .. n : Wins(s, found, w) /\ ByMetadata(s, found).target = found[w]
    BY <1>9, <1>10
  <2>2. PICK k \in 1 .. n : f[k] = w
    BY <1>2
  <2>3. Wins(s, other, k) /\ other[k] = found[w]
    BY <1>5, <1>7, <2>1, <2>2
  <2>4. ByMetadata(s, other).target = found[w]
    BY <1>9, <2>3
  <2> QED
    BY <1>8, <2>1, <2>4 DEF s, other
<1>11. CASE ByMetadata(s, found).target = None
  <2>1. SUFFICES ASSUME ByMetadata(s, other).target # None PROVE FALSE
    BY <1>8, <1>11 DEF s, other
  <2>2. PICK k \in 1 .. n : Wins(s, other, k)
    BY <1>9, <2>1
  <2>3. f[k] \in 1 .. n /\ Wins(s, found, f[k])
    BY <1>5, <1>7, <2>2
  <2>4. found[f[k]] = None
    BY <1>9, <1>11, <2>3
  <2> QED
    BY <1>1, <2>3, <2>4, PolicyAssumption, NoneAssumption
<1> QED
  BY <1>10, <1>11

(* In whatever order a search returns its results, the same one is chosen, *)
(* or none (as long as all of them are looked at, and the ISRC, where the  *)
(* first one counts, did not decide).                                      *)
THEOREM OrderOfResultsIsIrrelevant == PlanSpec => []MatchIgnoresOrder
<1>1. ASSUME LatestInv PROVE MatchIgnoresOrder
  <2>1. SUFFICES ASSUME latest # None, latest.match.method = "metadata",
                        Len(latest.found) <= MaxCandidates,
                        NEW f \in Bijection(DOMAIN latest.found, DOMAIN latest.found)
                 PROVE  Match(Track[latest.source],
                              [k \in DOMAIN f |-> latest.found[f[k]]]).target
                          = latest.match.target
    BY DEF MatchIgnoresOrder
  <2>2. /\ latest.source \in DOMAIN Track /\ latest.found \in Seq(Catalogue)
        /\ latest.match = Match(Track[latest.source], latest.found)
    BY <1>1, <2>1 DEF LatestInv
  <2>3. Match(Track[latest.source], latest.found).method = "metadata"
    BY <2>1, <2>2
  <2>4. Match(Track[latest.source], [k \in DOMAIN f |-> latest.found[f[k]]]).target
          = Match(Track[latest.source], latest.found).target
    BY <2>1, <2>2, <2>3, OrderDecidesNothing
  <2> QED
    BY <2>2, <2>4
<1>2. PlanInit => LatestInv
  BY DEF PlanInit, LatestInv
<1> QED
  BY <1>1, <1>2, PlanTypesInit, PlanTypesStep, LatestInvStep, PTL DEF PlanSpec

(***************************************************************************)
(* Counting what a list holds                                              *)
(***************************************************************************)
(* The places of a list that hold something of a set, and their number.    *)
PlacesOf(s, X) == {k \in DOMAIN s : s[k] \in X}
Count(s, X) == Cardinality(PlacesOf(s, X))

(* The places are finitely many.                                           *)
LEMMA PlacesAreFinite ==
  ASSUME NEW T, NEW s \in Seq(T), NEW X
  PROVE  IsFiniteSet(PlacesOf(s, X)) /\ Count(s, X) \in Nat
<1>1. IsFiniteSet(DOMAIN s)
  <2>1. DOMAIN s = 1 .. Len(s) /\ Len(s) \in Int
    OBVIOUS
  <2> QED
    BY <2>1, FS_Interval
<1>2. PlacesOf(s, X) \in SUBSET DOMAIN s
  BY DEF PlacesOf
<1>3. IsFiniteSet(PlacesOf(s, X))
  BY <1>1, <1>2, FS_Subset
<1> QED
  BY <1>3, FS_CardinalityType DEF Count

(* Sets that can be paired have the same number of elements.               *)
LEMMA SameNumber ==
  ASSUME NEW K, IsFiniteSet(K), NEW M, NEW f \in [K -> M],
         \A j, k \in K : f[j] = f[k] => j = k,
         \A m \in M : \E k \in K : f[k] = m
  PROVE  IsFiniteSet(M) /\ Cardinality(M) = Cardinality(K)
<1>1. f \in Bijection(K, M)
  BY DEF Bijection, Injection, Surjection, IsInjective
<1>2. ExistsBijection(K, M)
  BY <1>1 DEF ExistsBijection
<1> QED
  BY <1>2, FS_Bijection

(* A list that takes places of another one, each at most once, and every   *)
(* place that holds something of X.                                        *)
Takes(t, s, X, at) ==
  /\ at \in [1 .. Len(t) -> 1 .. Len(s)]
  /\ \A k \in 1 .. Len(t) : t[k] = s[at[k]]
  /\ \A j, k \in 1 .. Len(t) : j < k => at[j] # at[k]
  /\ \A m \in 1 .. Len(s) : s[m] \in X => \E k \in 1 .. Len(t) : at[k] = m

(* It holds of X what the other one holds.                                 *)
LEMMA TakenCount ==
  ASSUME NEW T, NEW t \in Seq(T), NEW s \in Seq(T), NEW X, NEW at, Takes(t, s, X, at)
  PROVE  Count(t, X) = Count(s, X)
<1>0. /\ at \in [1 .. Len(t) -> 1 .. Len(s)]
      /\ \A k \in 1 .. Len(t) : t[k] = s[at[k]]
      /\ \A j, k \in 1 .. Len(t) : j < k => at[j] # at[k]
      /\ \A m \in 1 .. Len(s) : s[m] \in X => \E k \in 1 .. Len(t) : at[k] = m
  BY DEF Takes
<1> DEFINE K == PlacesOf(t, X)
           M == PlacesOf(s, X)
           f == [k \in K |-> at[k]]
<1>1. /\ K = {k \in 1 .. Len(t) : t[k] \in X}
      /\ M = {m \in 1 .. Len(s) : s[m] \in X}
      /\ Len(t) \in Nat /\ Len(s) \in Nat
  BY DEF PlacesOf
<1>2. f \in [K -> M]
  BY <1>0, <1>1
<1>3. \A j, k \in K : f[j] = f[k] => j = k
  <2>1. SUFFICES ASSUME NEW j \in K, NEW k \in K, j # k PROVE f[j] # f[k]
    OBVIOUS
  <2>2. j \in 1 .. Len(t) /\ k \in 1 .. Len(t)
    BY <1>1
  <2>3. j < k \/ k < j
    BY <1>1, <2>1, <2>2
  <2>4. at[j] # at[k]
    BY <1>0, <2>2, <2>3
  <2> QED
    BY <2>4
<1>4. \A m \in M : \E k \in K : f[k] = m
  <2>1. SUFFICES ASSUME NEW m \in M PROVE \E k \in K : f[k] = m
    OBVIOUS
  <2>2. m \in 1 .. Len(s) /\ s[m] \in X
    BY <1>1
  <2>3. PICK k \in 1 .. Len(t) : at[k] = m
    BY <1>0, <2>2
  <2>4. k \in K
    BY <1>0, <1>1, <2>2, <2>3
  <2> QED
    BY <2>3, <2>4
<1>5. IsFiniteSet(K)
  BY PlacesAreFinite
<1> HIDE DEF K, M, f
<1>6. Cardinality(M) = Cardinality(K)
  BY <1>2, <1>3, <1>4, <1>5, SameNumber
<1> QED
  BY <1>6 DEF Count, K, M

(* A sublist holds what the list holds of the set it was made with.        *)
LEMMA SublistCount ==
  ASSUME NEW T, NEW s \in Seq(T), NEW S, NEW X, X \subseteq S
  PROVE  Count(Sublist(s, S), X) = Count(s, X)
<1> DEFINE t == Sublist(s, S)
<1>1. PICK at : Places(t, s, S, Len(s), at)
  BY SublistPlaces
<1>2. t \in Seq(T)
  BY SublistPlaces
<1> HIDE DEF t
<1>3. /\ at \in [1 .. Len(t) -> 1 .. Len(s)] /\ Len(t) \in Nat /\ Len(s) \in Nat
      /\ \A k \in 1 .. Len(t) : t[k] = s[at[k]]
      /\ \A j, k \in 1 .. Len(t) : j <= k => at[j] + (k - j) <= at[k]
      /\ \A m \in 1 .. Len(s) : s[m] \in S => \E k \in 1 .. Len(t) : at[k] = m
  BY <1>1, <1>2 DEF Places
<1>4. ASSUME NEW j \in 1 .. Len(t), NEW k \in 1 .. Len(t), j < k PROVE at[j] # at[k]
  <2>1. at[j] \in 1 .. Len(s) /\ at[k] \in 1 .. Len(s)
    BY <1>3
  <2>2. at[j] \in Int /\ at[k] \in Int /\ j \in Int /\ k \in Int
    BY <1>3, <2>1
  <2>3. at[j] + (k - j) <= at[k]
    BY <1>3, <1>4, <2>2
  <2> QED
    BY <1>4, <2>2, <2>3
<1>5. \A m \in 1 .. Len(s) : s[m] \in X => \E k \in 1 .. Len(t) : at[k] = m
  BY <1>3
<1>6. Count(t, X) = Count(s, X)
  <2>1. \A j, k \in 1 .. Len(t) : j < k => at[j] # at[k]
    BY <1>4
  <2>2. /\ at \in [1 .. Len(t) -> 1 .. Len(s)]
        /\ \A k \in 1 .. Len(t) : t[k] = s[at[k]]
    BY <1>3
  <2>3. Takes(t, s, X, at)
    BY <1>5, <2>1, <2>2 DEF Takes
  <2> QED
    BY <1>2, <2>3, TakenCount
<1> QED
  BY <1>6 DEF t

(* So does a sorted list of everything.                                    *)
LEMMA SortedCount ==
  ASSUME NEW T, NEW s \in Seq(T), NEW key, \A k \in DOMAIN s : key[s[k]] \in Int, NEW X
  PROVE  Count(Sorted(s, key), X) = Count(s, X)
<1> DEFINE t == Sorted(s, key)
<1>1. PICK at : Arranges(t, s, key, at)
  BY SortedArranges
<1>2. t \in Seq(T) /\ Len(t) = Len(s)
  BY SortedType
<1> HIDE DEF t
<1>3. /\ DOMAIN s = 1 .. Len(s) /\ DOMAIN t = 1 .. Len(s) /\ Len(s) \in Nat
  BY <1>2
<1>4. /\ at \in [1 .. Len(t) -> 1 .. Len(s)]
      /\ \A k \in 1 .. Len(t) : t[k] = s[at[k]]
      /\ \A m \in 1 .. Len(s) : \E k \in 1 .. Len(t) : at[k] = m
      /\ \A j, k \in 1 .. Len(t) : j < k => Before(s, key, at[j], at[k])
  BY <1>1, <1>2, <1>3 DEF Arranges
<1>5. \A i \in DOMAIN s : ~Before(s, key, i, i)
  BY <1>3, BeforeIsAnOrder
<1>6. \A j, k \in 1 .. Len(t) : j < k => at[j] # at[k]
  <2>1. SUFFICES ASSUME NEW j \in 1 .. Len(t), NEW k \in 1 .. Len(t), j < k
                 PROVE  at[j] # at[k]
    OBVIOUS
  <2>2. at[j] \in DOMAIN s /\ Before(s, key, at[j], at[k])
    BY <1>3, <1>4, <2>1
  <2> QED
    BY <1>5, <2>2
<1>7. Count(t, X) = Count(s, X)
  <2>1. \A m \in 1 .. Len(s) : s[m] \in X => \E k \in 1 .. Len(t) : at[k] = m
    BY <1>4
  <2>2. Takes(t, s, X, at)
    BY <1>4, <1>6, <2>1 DEF Takes
  <2> QED
    BY <1>2, <2>2, TakenCount
<1> QED
  BY <1>7 DEF t

(* Two lists hold together what each of them holds.                        *)
LEMMA ConcatCount ==
  ASSUME NEW T, NEW s \in Seq(T), NEW t \in Seq(T), NEW X
  PROVE  Count(s \o t, X) = Count(s, X) + Count(t, X)
<1> DEFINE n == Len(s)
           u == s \o t
           K == PlacesOf(t, X)
           M == {k + n : k \in K}
           f == [k \in K |-> k + n]
<1>1. /\ n \in Nat /\ Len(t) \in Nat /\ u \in Seq(T) /\ Len(u) = n + Len(t)
      /\ \A i \in 1 .. n : u[i] = s[i]
      /\ \A i \in 1 .. Len(t) : u[n + i] = t[i]
  OBVIOUS
<1>2. /\ PlacesOf(s, X) = {k \in 1 .. n : s[k] \in X}
      /\ K = {k \in 1 .. Len(t) : t[k] \in X}
  BY DEF PlacesOf
<1>3. PlacesOf(u, X) = {k \in 1 .. n + Len(t) : u[k] \in X}
  BY <1>1 DEF PlacesOf
<1>4. IsFiniteSet(PlacesOf(s, X)) /\ IsFiniteSet(K)
  BY PlacesAreFinite
<1>5. IsFiniteSet(M) /\ Cardinality(M) = Cardinality(K)
  <2>1. \A k \in K : k \in Int
    BY <1>2
  <2>2. f \in [K -> M]
    OBVIOUS
  <2>3. \A j, k \in K : f[j] = f[k] => j = k
    BY <1>1, <2>1
  <2>4. \A m \in M : \E k \in K : f[k] = m
    OBVIOUS
  <2> HIDE DEF K, M, f
  <2> QED
    BY <1>4, <2>2, <2>3, <2>4, SameNumber
<1>6. PlacesOf(u, X) = PlacesOf(s, X) \cup M
  <2> HIDE DEF n, u
  <2>1. ASSUME NEW k \in PlacesOf(u, X) PROVE k \in PlacesOf(s, X) \cup M
    <3>1. CASE k <= n
      BY <1>1, <1>2, <1>3, <2>1, <3>1
    <3>2. CASE ~(k <= n)
      <4>1. k - n \in 1 .. Len(t) /\ n + (k - n) = k /\ (k - n) + n = k
        BY <1>1, <1>3, <2>1, <3>2
      <4>2. u[k] = t[k - n] /\ u[k] \in X
        BY <1>1, <1>3, <2>1, <4>1
      <4>3. k - n \in K
        BY <1>2, <4>1, <4>2
      <4> QED
        BY <4>1, <4>3
    <3> QED
      BY <3>1, <3>2
  <2>2. ASSUME NEW k \in PlacesOf(s, X) PROVE k \in PlacesOf(u, X)
    BY <1>1, <1>2, <1>3, <2>2
  <2>3. ASSUME NEW k \in K PROVE k + n \in PlacesOf(u, X)
    <3>1. k \in 1 .. Len(t) /\ t[k] \in X
      BY <1>2
    <3>2. u[n + k] = t[k] /\ n + k = k + n /\ k + n \in 1 .. n + Len(t)
      BY <1>1, <3>1
    <3> QED
      BY <1>3, <3>1, <3>2
  <2> QED
    BY <2>1, <2>2, <2>3
<1>7. PlacesOf(s, X) \cap M = {}
  BY <1>1, <1>2
<1> HIDE DEF K, M, u
<1>8. Cardinality(PlacesOf(s, X) \cap M) = 0
  BY <1>7, FS_EmptySet
<1>9. Cardinality(PlacesOf(u, X)) = Cardinality(PlacesOf(s, X)) + Cardinality(M)
  <2>1. Cardinality(PlacesOf(s, X) \cup M)
          = Cardinality(PlacesOf(s, X)) + Cardinality(M)
              - Cardinality(PlacesOf(s, X) \cap M)
    BY <1>4, <1>5, FS_Union
  <2>2. Cardinality(PlacesOf(s, X)) \in Nat /\ Cardinality(M) \in Nat
    BY <1>4, <1>5, FS_CardinalityType
  <2> QED
    BY <1>6, <1>8, <2>1, <2>2
<1> QED
  BY <1>5, <1>9 DEF Count, K, u

(***************************************************************************)
(* What the logical orders do                                              *)
(***************************************************************************)
(* The planner's number of occurrences is the number of places.            *)
LEMMA TimesIsCount ==
  ASSUME NEW s, NEW x
  PROVE  Times(s, x) = Count(s, {x})
<1>1. {k \in DOMAIN s : s[k] = x} = {k \in DOMAIN s : s[k] \in {x}}
  OBVIOUS
<1> QED
  BY <1>1 DEF Times, Count, PlacesOf

(* A sorted list does not decrease.                                        *)
LEMMA SortedAscends ==
  ASSUME NEW T, NEW s \in Seq(T), NEW key, \A k \in DOMAIN s : key[s[k]] \in Int,
         NEW i \in 1 .. Len(s), NEW j \in 1 .. Len(s), i < j
  PROVE  /\ key[Sorted(s, key)[i]] \in Int /\ key[Sorted(s, key)[j]] \in Int
         /\ key[Sorted(s, key)[i]] <= key[Sorted(s, key)[j]]
<1>1. PICK at : Arranges(Sorted(s, key), s, key, at)
  BY SortedArranges
<1>2. DOMAIN s = 1 .. Len(s)
  OBVIOUS
<1>3. /\ at[i] \in DOMAIN s /\ at[j] \in DOMAIN s
      /\ Sorted(s, key)[i] = s[at[i]] /\ Sorted(s, key)[j] = s[at[j]]
      /\ Before(s, key, at[i], at[j])
  BY <1>1, <1>2 DEF Arranges
<1>4. key[s[at[i]]] \in Int /\ key[s[at[j]]] \in Int
  BY <1>3
<1>5. key[s[at[i]]] <= key[s[at[j]]]
  BY <1>3, <1>4 DEF Before
<1> QED
  BY <1>3, <1>4, <1>5

(* A keyed list holds every track as often as the given one, the keys      *)
(* ascend, and what has no key stands behind whatever has one.             *)
LEMMA KeyedHolds ==
  ASSUME NEW ids \in Seq(DOMAIN Track), NEW key,
         \A a \in DOMAIN key : key[a] \in Int
  PROVE  /\ Keyed(ids, key) \in Seq(DOMAIN Track)
         /\ \A a \in DOMAIN Track : Count(Keyed(ids, key), {a}) = Count(ids, {a})
         /\ \A u, v \in 1 .. Len(Keyed(ids, key)) : u < v =>
              \/ Keyed(ids, key)[v] \notin DOMAIN key
              \/ /\ Keyed(ids, key)[u] \in DOMAIN key
                 /\ key[Keyed(ids, key)[u]] \in Int
                 /\ key[Keyed(ids, key)[v]] \in Int
                 /\ key[Keyed(ids, key)[u]] <= key[Keyed(ids, key)[v]]
<1> DEFINE D == WithKey(ids, key)
           U == Keyless(ids, key)
           S == Sorted(D, key)
           t == S \o U
<1>1. /\ D \in Seq(DOMAIN Track) /\ U \in Seq(DOMAIN Track)
      /\ \A k \in DOMAIN D : D[k] \in DOMAIN key /\ key[D[k]] \in Int
      /\ \A k \in DOMAIN U : U[k] \notin DOMAIN key
  BY KeyParts
<1>2. \A k \in DOMAIN D : key[D[k]] \in Int
  BY <1>1
<1> HIDE DEF D, U
<1>3. S \in Seq(DOMAIN Track) /\ Len(S) = Len(D)
  BY <1>1, <1>2, SortedType
<1>4. t = Keyed(ids, key)
  BY DEF Keyed, D, U, WithKey, Keyless
<1>5. ASSUME NEW a \in DOMAIN Track PROVE Count(t, {a}) = Count(ids, {a})
  <2>1. Count(t, {a}) = Count(S, {a}) + Count(U, {a})
    BY <1>1, <1>3, ConcatCount
  <2>2. Count(S, {a}) = Count(D, {a})
    BY <1>1, <1>2, SortedCount
  <2>3. CASE a \in DOMAIN key
    <3>1. Count(D, {a}) = Count(ids, {a})
      BY <2>3, SublistCount DEF D, WithKey
    <3>3. PlacesOf(U, {a}) = {}
      BY <1>1, <2>3 DEF PlacesOf
    <3>4. Count(U, {a}) = 0
      BY <3>3, FS_EmptySet DEF Count
    <3>5. Count(ids, {a}) \in Nat
      BY PlacesAreFinite
    <3> QED
      BY <2>1, <2>2, <3>1, <3>4, <3>5
  <2>4. CASE a \notin DOMAIN key
    <3>1. Count(U, {a}) = Count(ids, {a})
      <4>1. {a} \subseteq DOMAIN Track \ DOMAIN key
        BY <2>4
      <4> QED
        BY <4>1, SublistCount DEF U, Keyless
    <3>3. PlacesOf(D, {a}) = {}
      BY <1>1, <2>4 DEF PlacesOf
    <3>4. Count(D, {a}) = 0
      BY <3>3, FS_EmptySet DEF Count
    <3>5. Count(ids, {a}) \in Nat
      BY PlacesAreFinite
    <3> QED
      BY <2>1, <2>2, <3>1, <3>4, <3>5
  <2> QED
    BY <2>3, <2>4
<1>6. \A u, v \in 1 .. Len(D) : u < v =>
        key[S[u]] \in Int /\ key[S[v]] \in Int /\ key[S[u]] <= key[S[v]]
  <2>1. SUFFICES ASSUME NEW u \in 1 .. Len(D), NEW v \in 1 .. Len(D), u < v
                 PROVE  key[S[u]] \in Int /\ key[S[v]] \in Int /\ key[S[u]] <= key[S[v]]
    OBVIOUS
  <2> QED
    BY <1>1, <1>2, <2>1, SortedAscends
<1>7. ASSUME NEW u \in 1 .. Len(D)
      PROVE  \E m \in 1 .. Len(D) : S[u] = D[m]
  <2>1. PICK at : Arranges(S, D, key, at)
    BY <1>1, <1>2, SortedArranges
  <2>2. DOMAIN D = 1 .. Len(D)
    BY <1>1
  <2>3. at[u] \in 1 .. Len(D) /\ S[u] = D[at[u]]
    BY <1>7, <2>1, <2>2 DEF Arranges
  <2> QED
    BY <2>3
<1> HIDE DEF S
<1>8. /\ t \in Seq(DOMAIN Track) /\ Len(t) = Len(D) + Len(U)
      /\ Len(D) \in Nat /\ Len(U) \in Nat
      /\ \A i \in 1 .. Len(D) : t[i] = S[i]
      /\ \A i \in 1 .. Len(U) : t[Len(D) + i] = U[i]
  <2>1. /\ Len(S) = Len(D) /\ S \in Seq(DOMAIN Track) /\ U \in Seq(DOMAIN Track)
        /\ Len(D) \in Nat /\ Len(U) \in Nat
    BY <1>1, <1>3
  <2> DEFINE T == DOMAIN Track
  <2>2. S \in Seq(T) /\ U \in Seq(T)
    BY <2>1
  <2> HIDE DEF T
  <2>3. /\ t \in Seq(T)
        /\ Len(t) = Len(S) + Len(U)
        /\ \A i \in 1 .. Len(S) + Len(U) :
             t[i] = IF i <= Len(S) THEN S[i] ELSE U[i - Len(S)]
    BY ONLY <2>2, ConcatProperties
  <2> HIDE DEF t
  <2>4. t \in Seq(T) /\ Len(t) = Len(D) + Len(U)
    BY ONLY <2>1, <2>3
  <2>5. \A i \in 1 .. Len(D) + Len(U) :
          t[i] = IF i <= Len(D) THEN S[i] ELSE U[i - Len(D)]
    BY ONLY <2>1, <2>3
  <2>6. \A i \in 1 .. Len(D) : t[i] = S[i]
    <3>1. ASSUME NEW i \in 1 .. Len(D)
          PROVE  i \in 1 .. Len(D) + Len(U) /\ i <= Len(D)
      BY ONLY <2>1, <3>1
    <3> QED
      BY ONLY <2>5, <3>1
  <2>7. \A i \in 1 .. Len(U) : t[Len(D) + i] = U[i]
    <3>1. ASSUME NEW i \in 1 .. Len(U)
          PROVE  /\ Len(D) + i \in 1 .. Len(D) + Len(U)
                 /\ ~(Len(D) + i <= Len(D)) /\ (Len(D) + i) - Len(D) = i
      BY ONLY <2>1, <3>1
    <3> QED
      BY ONLY <2>5, <3>1
  <2> QED
    BY <2>1, <2>6, <2>7, <2>4 DEF T
<1>9. ASSUME NEW u \in 1 .. Len(t), NEW v \in 1 .. Len(t), u < v
      PROVE  \/ t[v] \notin DOMAIN key
             \/ /\ t[u] \in DOMAIN key
                /\ key[t[u]] \in Int /\ key[t[v]] \in Int
                /\ key[t[u]] <= key[t[v]]
  <2> HIDE DEF t
  <2>1. CASE v <= Len(D)
    <3>1. u \in 1 .. Len(D) /\ v \in 1 .. Len(D)
      BY <1>8, <1>9, <2>1
    <3>2. key[S[u]] \in Int /\ key[S[v]] \in Int /\ key[S[u]] <= key[S[v]]
      BY <1>9, <1>6, <3>1
    <3>3. PICK m \in 1 .. Len(D) : S[u] = D[m]
      BY <1>7, <3>1
    <3>4. S[u] \in DOMAIN key
      BY <1>1, <3>3
    <3> QED
      BY <1>8, <3>1, <3>2, <3>4
  <2>2. CASE ~(v <= Len(D))
    <3>1. v - Len(D) \in 1 .. Len(U) /\ Len(D) + (v - Len(D)) = v
      BY <1>8, <2>2
    <3>2. t[v] = U[v - Len(D)]
      BY <1>8, <3>1
    <3>3. \A k \in 1 .. Len(U) : U[k] \notin DOMAIN key
      BY <1>1
    <3> QED
      BY <3>1, <3>2, <3>3
  <2> QED
    BY <2>1, <2>2
<1> HIDE DEF t
<1> QED
  BY <1>4, <1>5, <1>8, <1>9 DEF S

(* Ordering a section loses and repeats nothing, and puts nothing before   *)
(* what the requested order puts before it.                                *)
LEMMA OrderedHolds ==
  ASSUME JobInv, NEW section \in Favorites
  PROVE  /\ \A a \in DOMAIN Track :
              Count(Ordered(section), {a}) = Count(library[section], {a})
         /\ \A u, v \in 1 .. Len(Ordered(section)) : u < v =>
              ~Precedes(section, Ordered(section)[v], Ordered(section)[u])
<1> DEFINE ids == library[section]
           key == Key(section)
           field == Field(section)
<1>1. ids \in Seq(DOMAIN Track) /\ settings.ordering \in Orderings
  BY JobFacts
<1>2. CASE settings.ordering \in DOMAIN SortedBy[section]
  <2>1. /\ DOMAIN key = {a \in DOMAIN Track : Track[a].keys[field] # None}
        /\ \A a \in DOMAIN key :
             /\ key[a] \in Int /\ Track[a].keys[field] \in Int
             /\ settings.ordering = "newest" => key[a] = -Track[a].keys[field]
             /\ settings.ordering # "newest" => key[a] = Track[a].keys[field]
    BY <1>1, <1>2, KeyHolds
  <2>2. Ordered(section) = Keyed(ids, key)
    BY <1>2 DEF Ordered
  <2>3. \A a, b : Precedes(section, a, b) =>
          /\ Track[a].keys[field] # None
          /\ Track[b].keys[field] # None =>
               IF settings.ordering = "newest"
               THEN Track[a].keys[field] > Track[b].keys[field]
               ELSE Track[a].keys[field] < Track[b].keys[field]
    BY DEF Precedes, Field
  <2> DEFINE t == Keyed(ids, key)
  <2> HIDE DEF ids, key, field
  <2>4. /\ t \in Seq(DOMAIN Track)
        /\ \A a \in DOMAIN Track : Count(t, {a}) = Count(ids, {a})
        /\ \A u, v \in 1 .. Len(t) : u < v =>
             \/ t[v] \notin DOMAIN key
             \/ t[u] \in DOMAIN key /\ key[t[u]] <= key[t[v]]
    BY <1>1, <2>1, KeyedHolds
  <2> HIDE DEF t
  <2>5. ASSUME NEW u \in 1 .. Len(t), NEW v \in 1 .. Len(t), u < v
        PROVE  ~Precedes(section, t[v], t[u])
    <3>1. t[v] \in DOMAIN Track
      BY <2>4
    <3>2. CASE t[v] \notin DOMAIN key
      BY <2>1, <2>3, <3>1, <3>2
    <3>3. CASE t[v] \in DOMAIN key
      <4>1. t[u] \in DOMAIN key /\ key[t[u]] <= key[t[v]]
        BY <2>4, <2>5, <3>3
      <4> DEFINE x == Track[t[u]].keys[field]
                 y == Track[t[v]].keys[field]
      <4>2. /\ x \in Int /\ y \in Int /\ x # None
            /\ IF settings.ordering = "newest" THEN -x <= -y ELSE x <= y
        BY <2>1, <3>3, <4>1
      <4>3. Precedes(section, t[v], t[u]) =>
              IF settings.ordering = "newest" THEN y > x ELSE y < x
        BY <2>3, <4>2
      <4> HIDE DEF x, y
      <4> QED
        BY <4>2, <4>3
    <3> QED
      BY <3>2, <3>3
  <2> QED
    BY <2>2, <2>4, <2>5 DEF t, ids
<1>3. CASE settings.ordering \notin DOMAIN SortedBy[section]
  BY <1>3 DEF Ordered, Precedes
<1> QED
  BY <1>2, <1>3

(***************************************************************************)
(* What is planned so far                                                  *)
(***************************************************************************)
(* What a plan has to hold: every favourite that is identified, and every  *)
(* entry of a playlist that has a track.                                   *)
Wanted ==
  {e \in Entries : e.id # None /\ (e.kind \in Favorites => e.id \notin Unidentified)}

(* A sublist from the front.                                               *)
LEMMA SublistOfFirst ==
  ASSUME NEW T, NEW s \in Seq(T), s # << >>, NEW S
  PROVE  Sublist(s, S) = IF Head(s) \in S THEN <<Head(s)>> \o Sublist(Tail(s), S)
                                          ELSE Sublist(Tail(s), S)
<1> DEFINE h == Head(s)
           t == Tail(s)
<1>1. h \in T /\ t \in Seq(T) /\ <<h>> \in Seq(T) /\ << >> \in Seq(T)
  BY HeadTailProperties
<1>2. Len(t) = Len(s) - 1 /\ Len(s) \in Nat /\ \A i \in 1 .. Len(t) : t[i] = s[i + 1]
  BY HeadTailProperties
<1>3. h = s[1] /\ <<h>>[1] = h /\ Len(<<h>>) = 1
  OBVIOUS
<1> HIDE DEF h, t
<1>4. s = <<h>> \o t
  <2> DEFINE u == <<h>> \o t
  <2>1. /\ u \in Seq(T) /\ Len(u) = 1 + Len(t)
        /\ \A i \in 1 .. 1 + Len(t) : u[i] = IF i <= 1 THEN <<h>>[i] ELSE t[i - 1]
    BY ONLY <1>1, <1>3, ConcatProperties
  <2> HIDE DEF u
  <2>2. Len(u) = Len(s)
    BY <1>2, <2>1
  <2>3. ASSUME NEW i \in 1 .. Len(u) PROVE u[i] = s[i]
    <3>1. CASE i = 1
      BY <1>3, <2>1, <2>3, <3>1
    <3>2. CASE i # 1
      <4>1. i - 1 \in 1 .. Len(t) /\ (i - 1) + 1 = i /\ ~(i <= 1) /\ i \in 1 .. 1 + Len(t)
        BY <1>2, <2>1, <2>3, <3>2
      <4> QED
        BY <1>2, <2>1, <4>1
    <3> QED
      BY <3>1, <3>2
  <2>4. s = u
    BY <2>1, <2>2, <2>3, SeqEqual
  <2> QED
    BY <2>4 DEF u
<1>5. Sublist(s, S) = Sublist(<<h>>, S) \o Sublist(t, S)
  <2>1. PICK one : one = <<h>>
    OBVIOUS
  <2>2. one \in Seq(T) /\ t \in Seq(T)
    BY <1>1, <2>1
  <2>3. Sublist(one \o t, S) = Sublist(one, S) \o Sublist(t, S)
    BY <2>2, SublistOfConcat
  <2> QED
    BY <1>4, <2>1, <2>3, Zenon
<1>6. Append(<< >>, h) = <<h>>
  BY <1>1
<1>7. Sublist(<<h>>, S) = IF h \in S THEN <<h>> ELSE << >>
  <2>1. Sublist(Append(<< >>, h), S)
          = IF h \in S THEN Append(Sublist(<< >>, S), h) ELSE Sublist(<< >>, S)
    BY <1>1, SublistOfAppend
  <2> QED
    BY <1>6, <2>1, SublistOfEmpty
<1>8. << >> \o Sublist(t, S) = Sublist(t, S)
  <2>1. Sublist(t, S) \in Seq(T)
    BY <1>1, SublistPlaces
  <2> QED
    BY <2>1, ConcatEmptySeq
<1>9. Sublist(s, S) = IF h \in S THEN <<h>> \o Sublist(t, S) ELSE Sublist(t, S)
  BY <1>5, <1>7, <1>8
<1> QED
  BY <1>9 DEF h, t

(* Where the planner is with the n-th section: before it nothing of it is  *)
(* planned; in it, what is planned and what is still to be planned of the  *)
(* turns left is the whole; behind it the whole is planned.  Of what is    *)
(* left out for want of a track there is a warning.                        *)
Placing(n, at, left, ofs, told) ==
  LET section == settings.content[n]
      whole   == WorkOf(section)
      placed  == Sublist(ofs, OfSection(section))
  IN /\ n < at /\ section \in library.incomplete =>
          Entry("incomplete", None, 0, section) \in told
     /\ n < at /\ section \notin library.incomplete =>
          /\ placed = Sublist(whole, Wanted)
          /\ \A k \in 1 .. Len(whole) : whole[k].id = None => whole[k] \in told
     /\ n = at /\ left # None =>
          /\ section \notin library.incomplete
          /\ left \in Seq(OfSection(section))
          /\ placed \o Sublist(left, Wanted) = Sublist(whole, Wanted)
          /\ \A k \in 1 .. Len(whole) : whole[k].id = None =>
               whole[k] \in told \/ \E m \in 1 .. Len(left) : left[m] = whole[k]
     /\ n > at \/ (n = at /\ left = None) => placed = << >>

(* What the items are of.                                                  *)
Ofs == [i \in DOMAIN items |-> items[i].of]

(* The inductive invariant: every section is where the planner's stage     *)
(* says.                                                                   *)
Progress ==
  phase \in {"planning", "confirmed"} =>
    /\ phase = "confirmed" => stage > Len(settings.content)
    /\ turns # None => stage <= Len(settings.content)
    /\ \A n \in 1 .. Len(settings.content) : Placing(n, stage, turns, Ofs, warnings)

(* The same section does not come twice.                                   *)
DistinctContent == \A job \in Jobs : IsInjective(job.settings.content)

(* The settings name sections.                                             *)
LEMMA ContentHolds ==
  ASSUME JobInv
  PROVE  /\ Len(settings.content) \in Nat
         /\ \A n \in 1 .. Len(settings.content) : settings.content[n] \in Sections
BY JobFacts DEF Sections

(* The sections have no entry in common.                                   *)
LEMMA SectionsAreApart ==
  ASSUME DistinctContent, JobInv,
         NEW m \in 1 .. Len(settings.content), NEW n \in 1 .. Len(settings.content),
         m # n
  PROVE  OfSection(settings.content[m]) \cap OfSection(settings.content[n]) = {}
<1>1. settings.content[m] # settings.content[n]
  <2>1. IsInjective(settings.content)
    BY DEF DistinctContent, JobInv
  <2>2. DOMAIN settings.content = 1 .. Len(settings.content)
    BY JobFacts
  <2> QED
    BY <2>1, <2>2 DEF IsInjective
<1>2. settings.content[m] \in Sections /\ settings.content[n] \in Sections
  BY ContentHolds
<1> QED
  BY <1>1, <1>2 DEF OfSection, Sections

(* A turn more of the section: what is wanted is planned, what is not is   *)
(* left out, and when there is no track for it, with a warning.            *)
LEMMA TurnPlaces ==
  ASSUME JobInv, NEW n \in 1 .. Len(settings.content),
         NEW left \in Seq(Entries), left # << >>,
         NEW ofs \in Seq(Entries), NEW told, NEW told2, told \subseteq told2,
         NEW ofs2, Placing(n, n, left, ofs, told),
         Head(left).id = None => Head(left) \in told2,
         ofs2 = IF Head(left) \in Wanted THEN Append(ofs, Head(left)) ELSE ofs
  PROVE  Placing(n, n, Tail(left), ofs2, told2)
<1> DEFINE section == settings.content[n]
           whole == WorkOf(section)
           S == OfSection(section)
           h == Head(left)
           rest == Tail(left)
<1>1. section \in Sections
  BY ContentHolds
<1>2. left # None
  BY NoneAssumption
<1>3. /\ section \notin library.incomplete
      /\ left \in Seq(S)
      /\ Sublist(ofs, S) \o Sublist(left, Wanted) = Sublist(whole, Wanted)
      /\ \A k \in 1 .. Len(whole) : whole[k].id = None =>
           whole[k] \in told \/ \E m \in 1 .. Len(left) : left[m] = whole[k]
  BY <1>2 DEF Placing
<1>4. Sublist(left, Wanted) = IF h \in Wanted THEN <<h>> \o Sublist(rest, Wanted)
                                              ELSE Sublist(rest, Wanted)
  BY SublistOfFirst
<1>5. S \subseteq Entries
  BY DEF OfSection
<1> HIDE DEF section, S, whole
<1>6. h \in S /\ rest \in Seq(S) /\ h \in Entries /\ rest \in Seq(Entries)
  <2>1. h \in S /\ rest \in Seq(S)
    BY <1>3, HeadTailProperties
  <2>2. rest \in Seq(Entries)
    BY HeadTailProperties
  <2> QED
    BY <1>5, <2>1, <2>2
<1>7. /\ Len(rest) = Len(left) - 1 /\ Len(left) \in Nat
      /\ \A i \in 1 .. Len(rest) : rest[i] = left[i + 1]
      /\ left[1] = h
  BY HeadTailProperties
<1>8. Sublist(ofs2, S) = IF h \in Wanted THEN Append(Sublist(ofs, S), h)
                                         ELSE Sublist(ofs, S)
  <2>1. Sublist(Append(ofs, h), S)
          = IF h \in S THEN Append(Sublist(ofs, S), h) ELSE Sublist(ofs, S)
    BY <1>6, SublistOfAppend
  <2> QED
    BY <1>6, <2>1
<1> HIDE DEF h, rest
<1>9. Sublist(ofs2, S) \o Sublist(rest, Wanted) = Sublist(whole, Wanted)
  <2>1. PICK a, b : a = Sublist(ofs, S) /\ b = Sublist(rest, Wanted)
    OBVIOUS
  <2>2. a \in Seq(Entries) /\ b \in Seq(Entries) /\ <<h>> \in Seq(Entries)
    BY <1>6, <2>1, SublistPlaces
  <2>3. CASE h \in Wanted
    <3>1. Append(a, h) = a \o <<h>>
      BY <1>6, <2>2, AppendIsConcat
    <3>2. (a \o <<h>>) \o b = a \o (<<h>> \o b)
      BY ONLY <2>2, ConcatAssociative
    <3> QED
      BY <1>3, <1>4, <1>8, <2>1, <2>3, <3>1, <3>2
  <2>4. CASE h \notin Wanted
    BY <1>3, <1>4, <1>8, <2>4
  <2> QED
    BY <2>3, <2>4
<1>10. ASSUME NEW k \in 1 .. Len(whole), whole[k].id = None
       PROVE  whole[k] \in told2 \/ \E m \in 1 .. Len(rest) : rest[m] = whole[k]
  <2>1. CASE whole[k] \in told
    BY <2>1
  <2>2. CASE whole[k] \notin told
    <3>1. PICK m \in 1 .. Len(left) : left[m] = whole[k]
      BY <1>3, <1>10, <2>2
    <3>2. CASE m = 1
      BY <1>7, <1>10, <3>1, <3>2 DEF h
    <3>3. CASE m # 1
      <4>1. m - 1 \in 1 .. Len(rest) /\ (m - 1) + 1 = m
        BY <1>7, <3>3
      <4> QED
        BY <1>7, <3>1, <4>1
    <3> QED
      BY <3>2, <3>3
  <2> QED
    BY <2>1, <2>2
<1>11. ~(n < n) /\ ~(n > n) /\ n \in Nat
  BY ContentHolds
<1>12. rest # None
  BY <1>6, NoneAssumption
<1> QED
  BY <1>3, <1>6, <1>9, <1>10, <1>11, <1>12 DEF Placing, section, S, whole, rest

(* The other sections stay as they are.                                    *)
LEMMA OtherPlaces ==
  ASSUME DistinctContent, JobInv,
         NEW m \in 1 .. Len(settings.content), NEW n \in 1 .. Len(settings.content),
         m # n, NEW left, NEW left2,
         NEW ofs \in Seq(Entries), NEW told, NEW told2, told \subseteq told2,
         NEW ofs2, NEW h \in OfSection(settings.content[n]),
         Placing(m, n, left, ofs, told),
         ofs2 = ofs \/ ofs2 = Append(ofs, h)
  PROVE  Placing(m, n, left2, ofs2, told2)
<1> DEFINE S == OfSection(settings.content[m])
<1>1. h \notin S /\ h \in Entries
  <2>1. OfSection(settings.content[m]) \cap OfSection(settings.content[n]) = {}
    BY SectionsAreApart
  <2> QED
    BY <2>1 DEF OfSection
<1> HIDE DEF S
<1>2. Sublist(ofs2, S) = Sublist(ofs, S)
  <2>1. Sublist(Append(ofs, h), S)
          = IF h \in S THEN Append(Sublist(ofs, S), h) ELSE Sublist(ofs, S)
    BY <1>1, SublistOfAppend
  <2> QED
    BY <1>1, <2>1
<1> QED
  BY <1>2 DEF Placing, S

(* Only the state moves; the job is the same.                              *)
LEMMA PlacingUnchanged ==
  ASSUME library' = library, settings' = settings, NEW n,
         Placing(n, stage', turns', Ofs', warnings')
  PROVE  Placing(n, stage, turns, Ofs, warnings)'
<1>1. \A section : Ordered(section)' = Ordered(section)
  BY DEF Ordered, Key
<1>2. Blocks' = Blocks
  BY DEF Blocks, Block
<1>3. \A section : WorkOf(section)' = WorkOf(section)
  BY <1>1, <1>2 DEF WorkOf
<1> QED
  BY <1>3 DEF Placing

(* What the items are of is a list of entries, and grows with them.        *)
LEMMA OfsHolds ==
  ASSUME items \in Seq(Items)
  PROVE  /\ Ofs \in Seq(Entries) /\ Len(Ofs) = Len(items)
         /\ items' = items => Ofs' = Ofs
         /\ \A e \in Items : items' = Append(items, e) => Ofs' = Append(Ofs, e.of)
<1>1. DOMAIN items = 1 .. Len(items) /\ Len(items) \in Nat
  OBVIOUS
<1>2. \A i \in Items : i.of \in Entries
  BY DEF Items
<1>3. \A i \in 1 .. Len(items) : items[i].of \in Entries
  <2>1. \A i \in 1 .. Len(items) : items[i] \in Items
    OBVIOUS
  <2> QED
    BY <1>2, <2>1
<1>4. Ofs \in Seq(Entries) /\ Len(Ofs) = Len(items)
  BY <1>1, <1>3 DEF Ofs
<1>5. items' = items => Ofs' = Ofs
  BY DEF Ofs
<1>6. ASSUME NEW e \in Items, items' = Append(items, e) PROVE Ofs' = Append(Ofs, e.of)
  <2>1. /\ items' \in Seq(Items) /\ Len(items') = Len(items) + 1
        /\ \A i \in 1 .. Len(items) : items'[i] = items[i]
        /\ items'[Len(items) + 1] = e
    BY <1>6
  <2>2. Ofs' = [i \in 1 .. Len(items) + 1 |-> items'[i].of]
    <3>1. DOMAIN items' = 1 .. Len(items) + 1
      BY <2>1
    <3> QED
      BY <3>1 DEF Ofs
  <2> DEFINE n == Len(items)
             a == Append(Ofs, e.of)
  <2>3. e.of \in Entries
    BY <1>2
  <2>4. /\ a \in Seq(Entries) /\ Len(a) = n + 1
        /\ \A i \in 1 .. n : a[i] = Ofs[i]
        /\ a[n + 1] = e.of
    BY <1>4, <2>3
  <2>5. \A i \in 1 .. n : Ofs[i] = items[i].of
    BY <1>1 DEF Ofs
  <2>6. n \in Nat
    BY <1>1
  <2> HIDE DEF n, a
  <2>7. \A i \in 1 .. n + 1 : a[i] = items'[i].of
    <3>1. SUFFICES ASSUME NEW i \in 1 .. n + 1 PROVE a[i] = items'[i].of
      OBVIOUS
    <3>2. CASE i \in 1 .. n
      <4>1. items'[i] = items[i]
        BY <2>1, <3>2 DEF n
      <4>2. a[i] = items[i].of
        BY <2>4, <2>5, <3>2
      <4> QED
        BY <4>1, <4>2
    <3>3. CASE i = n + 1
      <4>1. items'[n + 1] = e
        BY <2>1 DEF n
      <4>2. a[n + 1] = e.of
        BY <2>4
      <4> QED
        BY <3>3, <4>1, <4>2
    <3> QED
      BY <2>6, <3>2, <3>3
  <2>8. a = [i \in 1 .. n + 1 |-> a[i]]
    BY <2>4, <2>6
  <2>9. a = [i \in 1 .. n + 1 |-> items'[i].of]
    BY <2>7, <2>8
  <2> QED
    BY <2>2, <2>9 DEF n, a
<1> QED
  BY <1>4, <1>5, <1>6

(* At the start nothing of any section is planned.                         *)
LEMMA ProgressInit ==
  ASSUME PlanInit
  PROVE  Progress
<1>1. stage = 1 /\ turns = None /\ phase = "planning" /\ Ofs = << >>
  BY DEF PlanInit, Ofs
<1>2. ASSUME NEW n \in 1 .. Len(settings.content)
      PROVE  Placing(n, stage, turns, Ofs, warnings)
  <2>1. Len(settings.content) \in Nat
    BY PlanTypesInit, ContentHolds DEF PlanTypes
  <2>2. ~(n < stage) /\ Sublist(Ofs, OfSection(settings.content[n])) = << >>
    BY <1>1, <2>1, SublistOfEmpty
  <2> QED
    BY <1>1, <2>2 DEF Placing
<1> QED
  BY <1>1, <1>2 DEF Progress

(* A turn of the planner's loops.                                          *)
LEMMA TurnProgress ==
  ASSUME DistinctContent, PlanTypes, Progress, Turn,
         library' = library, settings' = settings, phase' = phase, stage' = stage,
         turns' = Tail(turns), warnings \subseteq warnings',
         Current.id = None => Current \in warnings',
         Ofs' = IF Current \in Wanted THEN Append(Ofs, Current) ELSE Ofs
  PROVE  Progress'
<1>1. /\ phase = "planning" /\ turns # None /\ turns # << >> /\ turns \in Seq(Entries)
      /\ JobInv /\ items \in Seq(Items)
  BY DEF Turn, PlanTypes
<1>2. /\ stage <= Len(settings.content)
      /\ \A n \in 1 .. Len(settings.content) : Placing(n, stage, turns, Ofs, warnings)
  BY <1>1 DEF Progress
<1>3. stage \in 1 .. Len(settings.content)
  BY <1>1, <1>2, ContentHolds DEF PlanTypes
<1>4. Placing(stage, stage, turns, Ofs, warnings)
  BY <1>2, <1>3
<1>5. Current \in OfSection(settings.content[stage])
  <2> DEFINE S == OfSection(settings.content[stage])
  <2>1. turns \in Seq(S)
    BY <1>1, <1>3, <1>4 DEF Placing
  <2> HIDE DEF S
  <2>2. Current \in S
    BY <1>1, <2>1, HeadTailProperties DEF Current
  <2> QED
    BY <2>2 DEF S
<1>6. Ofs \in Seq(Entries)
  BY <1>1, OfsHolds
<1>7. PICK ofs2, told2 : ofs2 = Ofs' /\ told2 = warnings'
  OBVIOUS
<1>8. /\ ofs2 = IF Head(turns) \in Wanted THEN Append(Ofs, Head(turns)) ELSE Ofs
      /\ Head(turns).id = None => Head(turns) \in told2
      /\ warnings \subseteq told2
  BY <1>7 DEF Current
<1>9. ASSUME NEW n \in 1 .. Len(settings.content)
      PROVE  Placing(n, stage, Tail(turns), ofs2, told2)
  <2>1. CASE n = stage
    <3>1. Placing(n, n, turns, Ofs, warnings)
      BY <1>4, <2>1
    <3>2. Placing(n, n, Tail(turns), ofs2, told2)
      BY <1>1, <1>6, <1>8, <3>1, TurnPlaces
    <3> QED
      BY <2>1, <3>2
  <2>2. CASE n # stage
    <3>1. Placing(n, stage, turns, Ofs, warnings)
      BY <1>2
    <3>2. ofs2 = Ofs \/ ofs2 = Append(Ofs, Current)
      BY <1>8 DEF Current
    <3> QED
      BY <1>1, <1>3, <1>5, <1>6, <1>8, <2>2, <3>1, <3>2, OtherPlaces
  <2> QED
    BY <2>1, <2>2
<1>10. ASSUME NEW n \in 1 .. Len(settings.content)
       PROVE  Placing(n, stage, turns, Ofs, warnings)'
  <2>1. Placing(n, stage', turns', Ofs', warnings')
    BY <1>7, <1>9
  <2> QED
    BY <2>1, PlacingUnchanged
<1> QED
  BY <1>1, <1>2, <1>10 DEF Progress

(* Every step keeps the progress: a turn moves its section on and leaves   *)
(* the others, a section that ends is planned whole, and the next starts.  *)
LEMMA ProgressStep ==
  ASSUME DistinctContent, PlanTypes, Progress, [PlanNext]_plan
  PROVE  Progress'
<1>1. library' = library /\ settings' = settings
  BY DEF PlanNext, plan, SkipIncomplete, Unsupported, StartSection, SkipUnidentified,
         SkipUnresolved, PlanDirect, PlanUntargeted, PlanSearched, EndSection,
         StorePlan, Write, Verify, VerifyRaises, Decided
<1>2. JobInv /\ items \in Seq(Items) /\ stage \in Nat \ {0}
  BY DEF PlanTypes
<1>3. /\ Len(settings.content) \in Nat
      /\ \A n \in 1 .. Len(settings.content) : settings.content[n] \in Sections
  BY <1>2, ContentHolds
<1>4. Ofs \in Seq(Entries) /\ (items' = items => Ofs' = Ofs)
  BY <1>2, OfsHolds
<1> DEFINE Placed(at, left, told) ==
             \A n \in 1 .. Len(settings.content) : Placing(n, at, left, Ofs, told)
<1>5. ASSUME items' = items, Placed(stage', turns', warnings')
      PROVE  \A n \in 1 .. Len(settings'.content) :
               Placing(n, stage, turns, Ofs, warnings)'
  <2>1. \A n \in 1 .. Len(settings.content) :
          Placing(n, stage', turns', Ofs', warnings')
    <3>1. SUFFICES ASSUME NEW n \in 1 .. Len(settings.content)
                   PROVE  Placing(n, stage', turns', Ofs', warnings')
      OBVIOUS
    <3>2. Placing(n, stage', turns', Ofs, warnings')
      BY <1>5
    <3>3. Ofs' = Ofs
      BY <1>4, <1>5
    <3> QED
      BY <3>2, <3>3 DEF Placing
  <2> QED
    BY <1>1, <2>1, PlacingUnchanged
<1>6. CASE SkipIncomplete
  <2>1. /\ phase = "planning" /\ phase' = phase /\ turns = None /\ turns' = turns
        /\ stage <= Len(settings.content) /\ stage' = stage + 1
        /\ items' = items
        /\ settings.content[stage] \in library.incomplete
        /\ warnings' = warnings
             \cup {Entry("incomplete", None, 0, settings.content[stage])}
    BY <1>6 DEF SkipIncomplete, Entering, Section
  <2>2. Placed(stage, turns, warnings)
    BY <2>1 DEF Progress
  <2>3. ASSUME NEW n \in 1 .. Len(settings.content)
        PROVE  Placing(n, stage', turns', Ofs, warnings')
    <3>1. Placing(n, stage, turns, Ofs, warnings)
      BY <2>2
    <3>2. n < stage \/ n = stage \/ n > stage
      BY <1>2, <1>3
    <3>3. CASE n < stage
      <4>1. n < stage' /\ ~(n = stage') /\ ~(n > stage')
        BY <1>2, <1>3, <2>1, <3>3
      <4> QED
        BY <2>1, <3>1, <3>3, <4>1 DEF Placing
    <3>4. CASE n = stage
      <4>1. n < stage' /\ ~(n = stage') /\ ~(n > stage')
        BY <1>2, <1>3, <2>1, <3>4
      <4> QED
        BY <2>1, <3>4, <4>1 DEF Placing
    <3>5. CASE n > stage
      <4>1. ~(n < stage')
        BY <1>2, <1>3, <2>1, <3>5
      <4> QED
        BY <2>1, <3>1, <3>5, <4>1 DEF Placing
    <3> QED
      BY <3>2, <3>3, <3>4, <3>5
  <2>4. Placed(stage', turns', warnings')
    BY <2>3
  <2> HIDE DEF Placed
  <2> QED
    BY <1>5, <2>1, <2>4 DEF Progress
<1>7. CASE StartSection
  <2>1. /\ phase = "planning" /\ phase' = phase /\ turns = None /\ turns' = Work
        /\ stage <= Len(settings.content) /\ stage' = stage
        /\ items' = items /\ warnings' = warnings
        /\ settings.content[stage] \notin library.incomplete
    BY <1>7 DEF StartSection, Entering, Section
  <2>2. Placed(stage, turns, warnings)
    BY <2>1 DEF Progress
  <2>3. /\ turns' = WorkOf(settings.content[stage])
        /\ turns' \in Seq(OfSection(settings.content[stage]))
        /\ turns' # None
    <3>1. Work = WorkOf(Section) /\ Work \in Seq(OfSection(Section)) /\ Work \in Seq(Entries)
      BY <1>2, <2>1, WorkType
    <3> QED
      BY <2>1, <3>1, NoneAssumption DEF Section
  <2>4. ASSUME NEW n \in 1 .. Len(settings.content)
        PROVE  Placing(n, stage, turns', Ofs, warnings)
    <3>1. Placing(n, stage, turns, Ofs, warnings)
      BY <2>2
    <3>2. CASE n = stage
      <4> DEFINE S == OfSection(settings.content[n])
                 whole == WorkOf(settings.content[n])
      <4>1. ~(n < stage) /\ ~(n > stage)
        BY <1>2, <3>2
      <4>2. Sublist(Ofs, S) = << >>
        BY <2>1, <3>1, <3>2 DEF Placing
      <4>3. whole \in Seq(S) /\ turns' = whole
        BY <2>3, <3>2
      <4> HIDE DEF S, whole
      <4>4. << >> \o Sublist(whole, Wanted) = Sublist(whole, Wanted)
        <5>1. Sublist(whole, Wanted) \in Seq(S)
          BY <4>3, SublistPlaces
        <5> QED
          BY <5>1, ConcatEmptySeq
      <4>5. \A k \in 1 .. Len(whole) : \E m \in 1 .. Len(whole) : whole[m] = whole[k]
        OBVIOUS
      <4> QED
        BY <2>1, <2>3, <3>2, <4>1, <4>2, <4>3, <4>4, <4>5 DEF Placing, S, whole
    <3>3. CASE n # stage
      BY <3>1, <3>3 DEF Placing
    <3> QED
      BY <3>2, <3>3
  <2>5. Placed(stage', turns', warnings')
    BY <2>1, <2>4
  <2> HIDE DEF Placed
  <2> QED
    BY <1>1, <1>5, <2>1, <2>5 DEF Progress
<1>8. CASE EndSection
  <2>1. /\ phase = "planning" /\ phase' = phase /\ turns = << >> /\ turns' = None
        /\ stage' = stage + 1 /\ items' = items /\ warnings' = warnings
    BY <1>8 DEF EndSection
  <2>2. Placed(stage, turns, warnings)
    BY <2>1 DEF Progress
  <2>3. turns # None
    <3>1. << >> \in Seq(Entries)
      OBVIOUS
    <3> QED
      BY <2>1, <3>1, NoneAssumption
  <2>4. ASSUME NEW n \in 1 .. Len(settings.content)
        PROVE  Placing(n, stage', turns', Ofs, warnings)
    <3>1. Placing(n, stage, turns, Ofs, warnings)
      BY <2>2
    <3>2. n < stage \/ n = stage \/ n > stage
      BY <1>2, <1>3
    <3>3. CASE n < stage
      <4>1. n < stage' /\ ~(n = stage') /\ ~(n > stage')
        BY <1>2, <1>3, <2>1, <3>3
      <4> QED
        BY <3>1, <3>3, <4>1 DEF Placing
    <3>4. CASE n = stage
      <4> DEFINE S == OfSection(settings.content[n])
                 whole == WorkOf(settings.content[n])
      <4>1. n < stage' /\ ~(n = stage') /\ ~(n > stage')
        BY <1>2, <1>3, <2>1, <3>4
      <4>2. /\ settings.content[n] \notin library.incomplete
            /\ Sublist(Ofs, S) \o Sublist(<< >>, Wanted) = Sublist(whole, Wanted)
            /\ \A k \in 1 .. Len(whole) : whole[k].id = None =>
                 whole[k] \in warnings \/ \E m \in 1 .. Len(<< >>) : << >>[m] = whole[k]
        BY <2>1, <2>3, <3>1, <3>4 DEF Placing
      <4> HIDE DEF S, whole
      <4>3. Sublist(<< >>, Wanted) = << >>
        BY SublistOfEmpty
      <4>4. Sublist(Ofs, S) \o << >> = Sublist(Ofs, S)
        <5>1. Sublist(Ofs, S) \in Seq(Entries)
          BY <1>4, SublistPlaces
        <5> QED
          BY <5>1, ConcatEmptySeq
      <4>5. Sublist(Ofs, S) = Sublist(whole, Wanted)
        BY <4>2, <4>3, <4>4
      <4>6. \A k \in 1 .. Len(whole) : whole[k].id = None => whole[k] \in warnings
        BY <4>2
      <4> QED
        BY <4>1, <4>2, <4>5, <4>6 DEF Placing, S, whole
    <3>5. CASE n > stage
      <4>1. ~(n < stage')
        BY <1>2, <1>3, <2>1, <3>5
      <4> QED
        BY <2>1, <3>1, <3>5, <4>1 DEF Placing
    <3> QED
      BY <3>2, <3>3, <3>4, <3>5
  <2>5. Placed(stage', turns', warnings')
    BY <2>1, <2>4
  <2> HIDE DEF Placed
  <2> QED
    BY <1>5, <2>1, <2>5 DEF Progress
<1>9. CASE StorePlan
  <2>1. /\ phase = "planning" /\ phase' = "confirmed" /\ turns = None /\ turns' = turns
        /\ stage > Len(settings.content) /\ stage' = stage
        /\ items' = items /\ warnings' = warnings
    BY <1>9 DEF StorePlan
  <2>2. Placed(stage', turns', warnings')
    BY <2>1 DEF Progress
  <2> HIDE DEF Placed
  <2> QED
    BY <1>1, <1>5, <2>1, <2>2 DEF Progress
<1>10. CASE SkipUnidentified
  <2>1. /\ Turn /\ Current.kind \in Favorites /\ Current.id \in Unidentified
        /\ turns' = Tail(turns) /\ phase' = phase /\ stage' = stage
        /\ items' = items /\ warnings' = warnings
    BY <1>10 DEF SkipUnidentified, Advance, Decided
  <2>2. Current.id \in DOMAIN Track
    BY <2>1, CurrentHolds
  <2>3. Current.id # None /\ Current \notin Wanted
    BY <2>1, <2>2, NoneAssumption DEF Wanted
  <2> QED
    BY <1>1, <1>4, <2>1, <2>3, TurnProgress
<1>11. CASE SkipUnresolved
  <2>1. /\ Turn /\ Current.id = None
        /\ turns' = Tail(turns) /\ phase' = phase /\ stage' = stage
        /\ items' = items /\ warnings' = warnings \cup {Current}
    BY <1>11 DEF SkipUnresolved, Advance, Decided
  <2>2. Current \notin Wanted
    BY <2>1 DEF Wanted
  <2> QED
    BY <1>1, <1>4, <2>1, <2>2, TurnProgress
<1>12. ASSUME Identified, NEW target \in Targets, NEW status \in Statuses,
              items' = Planned(target, status), Advance, Decided, UNCHANGED warnings
       PROVE  Progress'
  <2>1. /\ Turn /\ Current.id # None
        /\ Current.kind \in Favorites => Current.id \notin Unidentified
        /\ turns' = Tail(turns) /\ phase' = phase /\ stage' = stage
        /\ warnings' = warnings
    BY <1>12 DEF Identified, Advance, Decided
  <2>2. Current \in Wanted /\ Current \in Entries
    BY <2>1, CurrentHolds DEF Wanted
  <2> DEFINE item == [of |-> Current, target |-> target, status |-> status,
                      filed |-> TRUE]
  <2>3. item \in Items /\ item.of = Current
    BY <2>2 DEF Items
  <2>4. items' = Append(items, item)
    BY <1>12 DEF Planned
  <2> HIDE DEF item
  <2>5. Ofs' = Append(Ofs, Current)
    BY <1>2, <2>3, <2>4, OfsHolds
  <2> QED
    BY <1>1, <2>1, <2>2, <2>5, TurnProgress
<1>13. CASE PlanDirect
  <2>1. /\ Identified /\ Reusable /\ Advance /\ Decided /\ UNCHANGED warnings
        /\ items' = Planned(Current.id, Settled(Current.id, "matched"))
    BY <1>13 DEF PlanDirect
  <2>2. Current.id \in Targets
    BY <2>1, CurrentHolds DEF Identified, Reusable, Targets, Favorites
  <2>3. Settled(Current.id, "matched") \in Statuses
    BY DEF Settled, Statuses
  <2> QED
    BY <1>12, <2>1, <2>2, <2>3
<1>14. CASE PlanUntargeted
  <2>1. /\ Identified /\ Advance /\ Decided /\ UNCHANGED warnings
        /\ items' = Planned(None, "pending")
    BY <1>14 DEF PlanUntargeted
  <2>2. None \in Targets /\ "pending" \in Statuses
    BY DEF Targets, Statuses
  <2> QED
    BY <1>12, <2>1, <2>2
<1>15. CASE \E found \in Results : PlanSearched(found)
  <2>1. PICK found \in Results : PlanSearched(found)
    BY <1>15
  <2>2. PICK match : match = Match(Track[Current.id], found)
    OBVIOUS
  <2>3. /\ Identified /\ Searchable /\ Advance /\ Decided /\ UNCHANGED warnings
        /\ items' = Planned(match.target, Settled(match.target, match.outcome))
    BY <2>1, <2>2 DEF PlanSearched
  <2>4. match.target \in Targets /\ match.outcome \in {"matched", "ambiguous", "not_found"}
    <3>1. Current.id \in DOMAIN Track
      BY <2>3, CurrentHolds DEF Identified, Searchable, Favorites
    <3>2. found \in Seq(Catalogue)
      BY ResultsAreLists
    <3> QED
      BY <2>2, <3>1, <3>2, MatchHolds
  <2>5. Settled(match.target, match.outcome) \in Statuses
    BY <2>4 DEF Settled, Statuses
  <2> QED
    BY <1>12, <2>3, <2>4, <2>5
<1>16. CASE Unsupported \/ Write \/ Verify \/ VerifyRaises
  <2>1. phase' \notin {"planning", "confirmed"}
    BY <1>16 DEF Unsupported, Write, Verify, VerifyRaises
  <2> QED
    BY <2>1 DEF Progress
<1>17. CASE UNCHANGED plan
  <2>1. /\ phase' = phase /\ stage' = stage /\ turns' = turns /\ items' = items
        /\ warnings' = warnings
    BY <1>17 DEF plan
  <2>2. phase \in {"planning", "confirmed"} => Placed(stage', turns', warnings')
    BY <2>1 DEF Progress
  <2> HIDE DEF Placed
  <2> QED
    BY <1>1, <1>5, <2>1, <2>2 DEF Progress
<1> QED
  BY <1>6, <1>7, <1>8, <1>9, <1>10, <1>11, <1>13, <1>14, <1>15, <1>16, <1>17 DEF PlanNext

(***************************************************************************)
(* What is confirmed                                                       *)
(***************************************************************************)
(* The items of a section, and the turns that plan something.              *)
ItemsOf(section)  == {i \in DOMAIN items : items[i].of \in OfSection(section)}
PlansOf(section)  == {k \in DOMAIN WorkOf(section) : WorkOf(section)[k] \in Wanted}

(* The items of a section that is planned are its turns, in their order.   *)
LEMMA ItemsFollowWork ==
  ASSUME JobInv, items \in Seq(Items), NEW section \in Sections,
         Sublist(Ofs, OfSection(section)) = Sublist(WorkOf(section), Wanted)
  PROVE  \E to \in [ItemsOf(section) -> PlansOf(section)] :
           /\ \A i \in ItemsOf(section) : items[i].of = WorkOf(section)[to[i]]
           /\ \A i, j \in ItemsOf(section) : i < j => to[i] < to[j]
           /\ \A k \in PlansOf(section) : \E i \in ItemsOf(section) : to[i] = k
<1> DEFINE S == OfSection(section)
           whole == WorkOf(section)
           placed == Sublist(Ofs, S)
           I == ItemsOf(section)
           W == PlansOf(section)
<1>1. /\ Ofs \in Seq(Entries) /\ Len(Ofs) = Len(items)
      /\ whole \in Seq(S) /\ S \subseteq Entries
  BY OfsHolds, WorkOfHolds DEF OfSection
<1>2. /\ DOMAIN items = 1 .. Len(items) /\ Len(items) \in Nat
      /\ DOMAIN whole = 1 .. Len(whole) /\ Len(whole) \in Nat
  <2> HIDE DEF whole, S
  <2> QED
    BY <1>1
<1>3. /\ I = {i \in 1 .. Len(items) : Ofs[i] \in S}
      /\ W = {k \in 1 .. Len(whole) : whole[k] \in Wanted}
      /\ \A i \in 1 .. Len(items) : Ofs[i] = items[i].of
  BY <1>2 DEF ItemsOf, PlansOf, Ofs
<1>4. placed = Sublist(whole, Wanted)
  OBVIOUS
<1>5. \A i : i \in I <=> i \in ItemsOf(section)
  OBVIOUS
<1> HIDE DEF S, whole
<1>6. placed \in Seq(Entries) /\ \E at : Places(placed, Ofs, S, Len(Ofs), at)
  BY <1>1, SublistPlaces
<1> HIDE DEF placed
<1>7. \E at : Places(placed, whole, Wanted, Len(whole), at)
  <2>1. \E at : Places(Sublist(whole, Wanted), whole, Wanted, Len(whole), at)
    BY <1>1, SublistPlaces
  <2> QED
    BY <1>4, <2>1
<1>8. PICK at : Places(placed, Ofs, S, Len(items), at)
  BY <1>1, <1>6
<1>9. PICK from : Places(placed, whole, Wanted, Len(whole), from)
  BY <1>7
<1> DEFINE n == Len(placed)
<1>10. n \in Nat
  BY <1>6
<1> HIDE DEF n, I, W
<1>11. /\ at \in [1 .. n -> 1 .. Len(items)]
       /\ \A q \in 1 .. n : placed[q] = Ofs[at[q]]
       /\ \A p, q \in 1 .. n : p <= q => at[p] + (q - p) <= at[q]
       /\ \A i \in 1 .. Len(items) : Ofs[i] \in S => \E q \in 1 .. n : at[q] = i
  BY <1>8 DEF Places, n
<1>12. /\ from \in [1 .. n -> 1 .. Len(whole)]
       /\ \A q \in 1 .. n : placed[q] = whole[from[q]] /\ placed[q] \in Wanted
       /\ \A p, q \in 1 .. n : p <= q => from[p] + (q - p) <= from[q]
       /\ \A k \in 1 .. Len(whole) : whole[k] \in Wanted => \E q \in 1 .. n : from[q] = k
  BY <1>9 DEF Places, n
<1>13. ASSUME NEW p \in 1 .. n, NEW q \in 1 .. n, p < q
       PROVE  at[p] < at[q] /\ from[p] < from[q]
  <2>1. at[p] \in 1 .. Len(items) /\ at[q] \in 1 .. Len(items)
    BY <1>11
  <2>2. from[p] \in 1 .. Len(whole) /\ from[q] \in 1 .. Len(whole)
    BY <1>12
  <2>3. at[p] \in Int /\ at[q] \in Int /\ from[p] \in Int /\ from[q] \in Int
        /\ p \in Int /\ q \in Int /\ p <= q
    BY <1>2, <1>10, <1>13, <2>1, <2>2
  <2>4. at[p] + (q - p) <= at[q]
    BY <1>11, <2>3
  <2>5. from[p] + (q - p) <= from[q]
    BY <1>12, <2>3
  <2> QED
    BY <1>13, <2>3, <2>4, <2>5
<1> DEFINE place == [i \in I |-> CHOOSE q \in 1 .. n : at[q] = i]
           to == [i \in I |-> from[place[i]]]
<1>14. ASSUME NEW i \in I PROVE place[i] \in 1 .. n /\ at[place[i]] = i
  <2>1. \E q \in 1 .. n : at[q] = i
    BY <1>3, <1>11, <1>14
  <2> QED
    BY <2>1
<1>15. \A i \in I : to[i] = from[place[i]]
  OBVIOUS
<1>16. to \in [I -> W]
  <2>1. ASSUME NEW i \in I PROVE to[i] \in W
    <3>1. place[i] \in 1 .. n
      BY <1>14
    <3> HIDE DEF place
    <3>2. to[i] = from[place[i]]
      BY <1>15
    <3> HIDE DEF to
    <3>3. from[place[i]] \in 1 .. Len(whole) /\ whole[from[place[i]]] \in Wanted
      BY <1>12, <3>1
    <3> QED
      BY <1>3, <3>2, <3>3
  <2> QED
    BY <2>1
<1> HIDE DEF place, to
<1>17. ASSUME NEW i \in I PROVE items[i].of = whole[to[i]]
  <2>1. place[i] \in 1 .. n /\ at[place[i]] = i /\ to[i] = from[place[i]]
    BY <1>14, <1>15
  <2>2. Ofs[i] = whole[to[i]]
    BY <1>11, <1>12, <2>1
  <2> QED
    BY <1>3, <2>2
<1>18. ASSUME NEW i \in I, NEW j \in I, i < j PROVE to[i] < to[j]
  <2>1. /\ place[i] \in 1 .. n /\ at[place[i]] = i /\ to[i] = from[place[i]]
        /\ place[j] \in 1 .. n /\ at[place[j]] = j /\ to[j] = from[place[j]]
    BY <1>14, <1>15
  <2>2. i \in Int /\ j \in Int
    BY <1>2, <1>3
  <2>3. place[i] < place[j]
    <3>1. ~(place[j] < place[i])
      BY <1>13, <1>18, <2>1, <2>2
    <3>2. place[i] # place[j]
      BY <1>18, <2>1, <2>2
    <3> QED
      BY <1>10, <2>1, <3>1, <3>2
  <2> QED
    BY <1>13, <2>1, <2>3
<1>19. ASSUME NEW k \in W PROVE \E i \in I : to[i] = k
  <2>1. k \in 1 .. Len(whole) /\ whole[k] \in Wanted
    BY <1>3
  <2>2. PICK q \in 1 .. n : from[q] = k
    BY <1>12, <2>1
  <2>3. at[q] \in 1 .. Len(items) /\ Ofs[at[q]] \in S
    <3>1. placed[q] \in S /\ at[q] \in 1 .. Len(items)
      BY <1>8, <1>11 DEF Places, n
    <3> QED
      BY <1>11, <3>1
  <2>4. at[q] \in I
    BY <1>3, <2>3
  <2>5. place[at[q]] = q
    <3>1. place[at[q]] \in 1 .. n /\ at[place[at[q]]] = at[q]
      BY <1>14, <2>4
    <3>2. ~(place[at[q]] < q) /\ ~(q < place[at[q]])
      <4>1. at[q] \in Int
        BY <1>2, <2>3
      <4> QED
        BY <1>13, <3>1, <4>1
    <3> QED
      BY <1>10, <3>1, <3>2
  <2>6. to[at[q]] = k
    BY <1>15, <2>2, <2>4, <2>5
  <2> QED
    BY <2>4, <2>6
<1> QED
  BY <1>16, <1>17, <1>18, <1>19 DEF I, W, whole

(* A section of favourites that is planned holds each identified one as    *)
(* often as the library and in the requested order.                        *)
LEMMA FavoritesArePlanned ==
  ASSUME JobInv, items \in Seq(Items), NEW section \in Favorites,
         Sublist(Ofs, OfSection(section)) = Sublist(WorkOf(section), Wanted)
  PROVE  LET planned == {i \in DOMAIN items : items[i].of.kind = section}
         IN /\ \A a \in DOMAIN Track \ Unidentified :
                 Times(library[section], a)
                   = Cardinality({i \in planned : items[i].of.id = a})
            /\ \A i, j \in planned : i < j =>
                 ~Precedes(section, items[j].of.id, items[i].of.id)
<1> DEFINE planned == {i \in DOMAIN items : items[i].of.kind = section}
           whole == WorkOf(section)
           ids == Ordered(section)
           W == PlansOf(section)
<1>1. /\ section \in Sections /\ section # "playlists"
      /\ library[section] \in Seq(DOMAIN Track)
  BY JobFacts DEF Favorites, Sections
<1>2. /\ whole \in Seq(OfSection(section))
      /\ ids \in Seq(DOMAIN Track) /\ Len(whole) = Len(ids)
      /\ \A k \in 1 .. Len(whole) : whole[k] = Entry(section, None, k, ids[k])
  BY <1>1, WorkOfHolds
<1>3. ItemsOf(section) = planned
  <2>1. \A i \in DOMAIN items : items[i].of \in Entries
    <3>1. \A i \in Items : i.of \in Entries
      BY DEF Items
    <3>2. \A i \in DOMAIN items : items[i] \in Items
      OBVIOUS
    <3> QED
      BY <3>1, <3>2
  <2> QED
    BY <1>1, <2>1 DEF ItemsOf, OfSection
<1>4. \E to \in [planned -> W] :
        /\ \A i \in planned : items[i].of = whole[to[i]]
        /\ \A i, j \in planned : i < j => to[i] < to[j]
        /\ \A k \in W : \E i \in planned : to[i] = k
  <2>1. \E to \in [ItemsOf(section) -> PlansOf(section)] :
          /\ \A i \in ItemsOf(section) : items[i].of = WorkOf(section)[to[i]]
          /\ \A i, j \in ItemsOf(section) : i < j => to[i] < to[j]
          /\ \A k \in PlansOf(section) : \E i \in ItemsOf(section) : to[i] = k
    BY <1>1, ItemsFollowWork
  <2> HIDE DEF planned
  <2> QED
    BY <1>3, <2>1
<1>5. /\ \A a \in DOMAIN Track : Count(ids, {a}) = Count(library[section], {a})
      /\ \A u, v \in 1 .. Len(ids) : u < v => ~Precedes(section, ids[v], ids[u])
  BY <1>1, OrderedHolds
<1>6. W = {k \in DOMAIN whole : whole[k] \in Wanted}
  BY DEF PlansOf
<1>7. planned \subseteq DOMAIN items /\ IsFiniteSet(DOMAIN items)
  <2>1. DOMAIN items = 1 .. Len(items) /\ Len(items) \in Int
    OBVIOUS
  <2> QED
    BY <2>1, FS_Interval
<1> HIDE DEF planned, whole, ids, W
<1>8. PICK to \in [planned -> W] :
        /\ \A i \in planned : items[i].of = whole[to[i]]
        /\ \A i, j \in planned : i < j => to[i] < to[j]
        /\ \A k \in W : \E i \in planned : to[i] = k
  BY <1>4
<1>9. /\ Len(ids) \in Nat /\ DOMAIN ids = 1 .. Len(ids) /\ DOMAIN whole = 1 .. Len(ids)
      /\ \A k \in 1 .. Len(ids) : ids[k] \in DOMAIN Track
  BY <1>2
<1>10. \A k \in 1 .. Len(ids) : whole[k].id = ids[k] /\ whole[k].kind = section
  BY <1>2, <1>9 DEF Entry
<1>11. \A k \in 1 .. Len(ids) : ids[k] \notin Unidentified => k \in W
  <2>1. SUFFICES ASSUME NEW k \in 1 .. Len(ids), ids[k] \notin Unidentified
                 PROVE  k \in W
    OBVIOUS
  <2>2. whole[k] \in Entries
    <3> DEFINE S == OfSection(section)
    <3>1. whole \in Seq(S) /\ S \subseteq Entries
      BY <1>2 DEF OfSection
    <3> HIDE DEF S
    <3>2. whole[k] \in S
      BY <1>2, <1>9, <3>1
    <3> QED
      BY <3>1, <3>2
  <2>3. ids[k] # None
    BY <1>9, NoneAssumption
  <2> QED
    BY <1>6, <1>9, <1>10, <2>1, <2>2, <2>3 DEF Wanted
<1>12. \A i \in planned : /\ to[i] \in 1 .. Len(ids)
                          /\ items[i].of.id = ids[to[i]]
  <2>1. SUFFICES ASSUME NEW i \in planned
                 PROVE  to[i] \in 1 .. Len(ids) /\ items[i].of.id = ids[to[i]]
    OBVIOUS
  <2>2. to[i] \in 1 .. Len(ids)
    BY <1>6, <1>8, <1>9
  <2>3. items[i].of = whole[to[i]]
    BY <1>8
  <2> QED
    BY <1>10, <2>2, <2>3
<1>13. ASSUME NEW a \in DOMAIN Track \ Unidentified
       PROVE  Times(library[section], a) = Cardinality({i \in planned : items[i].of.id = a})
  <2> DEFINE P == {i \in planned : items[i].of.id = a}
             K == PlacesOf(ids, {a})
             f == [i \in P |-> to[i]]
  <2>1. K = {k \in 1 .. Len(ids) : ids[k] = a}
    BY <1>9 DEF PlacesOf
  <2>2. IsFiniteSet(P)
    <3>1. P \subseteq DOMAIN items
      BY <1>7
    <3> HIDE DEF P
    <3> QED
      BY <1>7, <3>1, FS_Subset
  <2>3. f \in [P -> K]
    BY <1>12, <2>1
  <2>4. \A i, j \in P : f[i] = f[j] => i = j
    <3>1. SUFFICES ASSUME NEW i \in P, NEW j \in P, i # j PROVE f[i] # f[j]
      OBVIOUS
    <3>2. i \in planned /\ j \in planned /\ f[i] = to[i] /\ f[j] = to[j]
      OBVIOUS
    <3>3. i \in Int /\ j \in Int
      <4>1. DOMAIN items = 1 .. Len(items) /\ Len(items) \in Nat
        OBVIOUS
      <4> QED
        BY <1>7, <3>2, <4>1
    <3>4. to[i] \in Int /\ to[j] \in Int
      BY <1>9, <1>12, <3>2
    <3>5. i < j \/ j < i
      BY <3>1, <3>3
    <3>6. to[i] < to[j] \/ to[j] < to[i]
      BY <1>8, <3>2, <3>5
    <3> QED
      BY <3>2, <3>4, <3>6
  <2>5. \A k \in K : \E i \in P : f[i] = k
    <3>1. SUFFICES ASSUME NEW k \in K PROVE \E i \in P : f[i] = k
      OBVIOUS
    <3>2. k \in 1 .. Len(ids) /\ ids[k] = a
      BY <2>1
    <3>3. k \in W
      BY <1>11, <3>2
    <3>4. PICK i \in planned : to[i] = k
      BY <1>8, <3>3
    <3>5. i \in P
      BY <1>12, <3>2, <3>4
    <3> QED
      BY <3>4, <3>5
  <2> HIDE DEF P, K, f
  <2>6. Cardinality(K) = Cardinality(P)
    BY <2>2, <2>3, <2>4, <2>5, SameNumber
  <2>7. Times(library[section], a) = Count(ids, {a})
    BY <1>5, TimesIsCount
  <2> QED
    BY <2>6, <2>7 DEF Count, K, P
<1>14. ASSUME NEW i \in planned, NEW j \in planned, i < j
       PROVE  ~Precedes(section, items[j].of.id, items[i].of.id)
  <2>1. to[i] < to[j]
    BY <1>8, <1>14
  <2>2. ~Precedes(section, ids[to[j]], ids[to[i]])
    BY <1>5, <1>12, <2>1
  <2> QED
    BY <1>12, <2>2
<1> QED
  BY <1>13, <1>14 DEF planned

(* Where a playlist stands in the work of its section, where its entries   *)
(* stand behind it, and that nothing else of it stands anywhere.           *)
PlaylistAt(f, p) ==
  LET whole == WorkOf("playlists")
  IN /\ f + 1 \in DOMAIN whole
     /\ whole[f + 1] = Entry("playlist", p, p, p)
     /\ \A k \in DOMAIN library.playlists[p] :
          /\ f + 1 + k \in DOMAIN whole
          /\ whole[f + 1 + k] = Entry("entry", p, k, library.playlists[p][k])
     /\ \A w \in DOMAIN whole : whole[w].list = p =>
          \/ w = f + 1 /\ whole[w].kind = "playlist"
          \/ /\ whole[w].kind = "entry" /\ whole[w].at \in Nat \ {0}
             /\ w = f + 1 + whole[w].at

(* Every playlist stands somewhere.                                        *)
LEMMA EntriesStand ==
  ASSUME JobInv, NEW p \in DOMAIN library.playlists
  PROVE  \E f \in Nat : PlaylistAt(f, p)
<1> DEFINE whole == WorkOf("playlists")
           T == OfSection("playlists")
           n == Len(library.playlists)
<1>1. whole \in Seq(T) /\ \E from : Stands(whole, Blocks, n, from)
  <2>1. "playlists" \in Sections
    BY DEF Sections
  <2> QED
    BY <2>1, WorkOfHolds
<1>2. n \in Nat /\ DOMAIN library.playlists = 1 .. n
  BY JobFacts
<1> HIDE DEF whole, T, n
<1>3. PICK from : Stands(whole, Blocks, n, from)
  BY <1>1
<1>4. \A q \in 1 .. n : Blocks[q] = Block(q)
  BY <1>2 DEF Blocks
<1>5. Len(whole) \in Nat /\ DOMAIN whole = 1 .. Len(whole)
  BY <1>1
<1>6. /\ from \in [1 .. n -> Nat]
      /\ \A q \in 1 .. n :
           /\ from[q] + Len(Block(q)) <= Len(whole)
           /\ \A m \in 1 .. Len(Block(q)) : whole[from[q] + m] = Block(q)[m]
      /\ \A j \in 1 .. Len(whole) :
           \E q \in 1 .. n : \E m \in 1 .. Len(Block(q)) : j = from[q] + m
  BY <1>3, <1>4 DEF Stands
<1> DEFINE L(q) == Len(library.playlists[q])
<1>7. \A q \in 1 .. n :
        /\ L(q) \in Nat /\ DOMAIN library.playlists[q] = 1 .. L(q)
        /\ Len(Block(q)) = 1 + L(q)
        /\ Block(q)[1] = Entry("playlist", q, q, q)
        /\ \A k \in 1 .. L(q) :
             Block(q)[1 + k] = Entry("entry", q, k, library.playlists[q][k])
  BY <1>2, BlockHolds
<1> HIDE DEF L
<1>8. ASSUME NEW q \in 1 .. n, NEW m \in 1 .. 1 + L(q)
      PROVE  /\ whole[from[q] + m].list = q
             /\ m = 1 => whole[from[q] + m] = Entry("playlist", q, q, q)
             /\ m > 1 => /\ whole[from[q] + m].kind = "entry"
                         /\ whole[from[q] + m].at = m - 1
                         /\ whole[from[q] + m]
                              = Entry("entry", q, m - 1, library.playlists[q][m - 1])
  <2>1. m \in 1 .. Len(Block(q)) /\ L(q) \in Nat
    BY <1>7
  <2>2. whole[from[q] + m] = Block(q)[m]
    <3>1. \A j \in 1 .. Len(Block(q)) : whole[from[q] + j] = Block(q)[j]
      BY <1>6
    <3> QED
      BY <2>1, <3>1
  <2>3. CASE m = 1
    <3>1. whole[from[q] + m] = Entry("playlist", q, q, q)
      BY <1>7, <2>2, <2>3
    <3>2. ~(m > 1)
      BY <2>3
    <3> QED
      BY <3>1, <3>2 DEF Entry
  <2>4. CASE m # 1
    <3>1. m - 1 \in 1 .. L(q) /\ 1 + (m - 1) = m
      BY <1>8, <2>1, <2>4
    <3>2. Block(q)[m] = Entry("entry", q, m - 1, library.playlists[q][m - 1])
      BY <1>7, <3>1
    <3> QED
      BY <2>2, <2>4, <3>2 DEF Entry
  <2> QED
    BY <2>3, <2>4
<1>9. /\ p \in 1 .. n /\ L(p) \in Nat /\ from[p] \in Nat
      /\ DOMAIN library.playlists[p] = 1 .. L(p)
      /\ from[p] + (1 + L(p)) <= Len(whole)
  BY <1>2, <1>6, <1>7
<1>10. /\ from[p] + 1 \in 1 .. Len(whole)
       /\ whole[from[p] + 1] = Entry("playlist", p, p, p)
  <2>1. 1 \in 1 .. 1 + L(p)
    BY <1>9
  <2>2. from[p] + 1 \in 1 .. Len(whole)
    BY <1>5, <1>9
  <2> QED
    BY <1>8, <1>9, <2>1, <2>2
<1>11. ASSUME NEW k \in 1 .. L(p)
       PROVE  /\ from[p] + 1 + k \in 1 .. Len(whole)
              /\ whole[from[p] + 1 + k] = Entry("entry", p, k, library.playlists[p][k])
  <2>1. from[p] + 1 + k \in 1 .. Len(whole)
    BY <1>5, <1>9, <1>11
  <2>2. 1 + k \in 1 .. 1 + L(p) /\ 1 + k > 1 /\ (1 + k) - 1 = k
        /\ from[p] + (1 + k) = from[p] + 1 + k
    BY <1>9, <1>11
  <2> QED
    BY <1>8, <1>9, <2>1, <2>2
<1>12. ASSUME NEW w \in 1 .. Len(whole), whole[w].list = p
       PROVE  \/ w = from[p] + 1 /\ whole[w].kind = "playlist"
              \/ /\ whole[w].kind = "entry" /\ whole[w].at \in Nat \ {0}
                 /\ w = from[p] + 1 + whole[w].at
  <2>1. PICK q \in 1 .. n : \E m \in 1 .. Len(Block(q)) : w = from[q] + m
    BY <1>6
  <2>2. PICK m \in 1 .. 1 + L(q) : w = from[q] + m
    BY <1>7, <2>1
  <2>3. q = p
    BY <1>8, <1>12, <2>2
  <2>4. m \in Int /\ m >= 1
    BY <1>9, <2>3
  <2>5. CASE m = 1
    <3>1. whole[w] = Entry("playlist", p, p, p)
      BY <1>8, <2>2, <2>3, <2>5
    <3> QED
      BY <2>2, <2>3, <2>5, <3>1 DEF Entry
  <2>6. CASE m # 1
    <3>1. whole[w].kind = "entry" /\ whole[w].at = m - 1
      BY <1>8, <2>2, <2>4, <2>6
    <3>2. m - 1 \in Nat \ {0} /\ w = from[p] + 1 + (m - 1)
      BY <1>9, <2>2, <2>3, <2>4, <2>6
    <3> QED
      BY <3>1, <3>2
  <2> QED
    BY <2>5, <2>6
<1>13. PlaylistAt(from[p], p)
  BY <1>5, <1>9, <1>10, <1>11, <1>12 DEF PlaylistAt, whole
<1> QED
  BY <1>9, <1>13

(* A playlist is planned by one item, and behind it each of its entries    *)
(* that has a track by one item, with only later entries of the same       *)
(* playlist behind that; of the others there is a warning.                 *)
LEMMA PlaylistsArePlanned ==
  ASSUME JobInv, items \in Seq(Items),
         Sublist(Ofs, OfSection("playlists")) = Sublist(WorkOf("playlists"), Wanted),
         \A k \in 1 .. Len(WorkOf("playlists")) :
           WorkOf("playlists")[k].id = None => WorkOf("playlists")[k] \in warnings,
         NEW p \in DOMAIN library.playlists
  PROVE  \E top \in DOMAIN items :
           /\ PlannedOnlyAt(Entry("playlist", p, p, p), top)
           /\ \A k \in DOMAIN library.playlists[p] :
                LET entry == Entry("entry", p, k, library.playlists[p][k])
                IN IF entry.id = None THEN entry \in warnings
                   ELSE \E i \in DOMAIN items :
                     /\ top < i /\ PlannedOnlyAt(entry, i)
                     /\ \A j \in DOMAIN items : items[j].of.list = p /\ j > i
                           => items[j].of.kind = "entry" /\ items[j].of.at > k
<1> DEFINE whole == WorkOf("playlists")
           S == OfSection("playlists")
           I == ItemsOf("playlists")
           W == PlansOf("playlists")
           first == Entry("playlist", p, p, p)
           entry(k) == Entry("entry", p, k, library.playlists[p][k])
<1>1. "playlists" \in Sections
  BY DEF Sections
<1>2. whole \in Seq(S) /\ S \subseteq Entries
  BY <1>1, WorkOfHolds DEF OfSection
<1>3. \E to \in [I -> W] :
        /\ \A i \in I : items[i].of = whole[to[i]]
        /\ \A i, j \in I : i < j => to[i] < to[j]
        /\ \A m \in W : \E i \in I : to[i] = m
  BY <1>1, ItemsFollowWork
<1>4. PICK f \in Nat : PlaylistAt(f, p)
  BY EntriesStand
<1>5. \A i \in DOMAIN items : items[i].of \in Entries
  <2>1. \A i \in Items : i.of \in Entries
    BY DEF Items
  <2>2. \A i \in DOMAIN items : items[i] \in Items
    OBVIOUS
  <2> QED
    BY <2>1, <2>2
<1>6. /\ p \in Nat /\ DOMAIN library.playlists[p] \subseteq Nat \ {0}
  <2>1. DOMAIN library.playlists = 1 .. Len(library.playlists)
        /\ Len(library.playlists) \in Nat
    BY JobFacts
  <2>2. DOMAIN library.playlists[p] = 1 .. Len(library.playlists[p])
        /\ Len(library.playlists[p]) \in Nat
    BY BlockHolds
  <2> QED
    BY <2>1, <2>2
<1>7. I = {i \in DOMAIN items : items[i].of \in S}
  BY DEF ItemsOf
<1>8. W = {m \in DOMAIN whole : whole[m] \in Wanted}
  BY DEF PlansOf
<1>9. None # p
  BY <1>6, NoneAssumption
<1>10. \A e \in Entries : e.list = p => e \in S
  BY <1>9 DEF Entries, OfSection, Favorites
<1>11. /\ first.kind = "playlist" /\ first.id = p /\ first.list = p
       /\ \A k : /\ entry(k).kind = "entry" /\ entry(k).id = library.playlists[p][k]
                 /\ entry(k).list = p /\ entry(k).at = k
  BY DEF Entry
<1>12. DOMAIN whole \subseteq Int /\ DOMAIN whole = 1 .. Len(whole)
  <2>1. DOMAIN whole = 1 .. Len(whole) /\ Len(whole) \in Nat
    BY <1>2
  <2> QED
    BY <2>1
<1>13. DOMAIN items \subseteq Int
  <2>1. DOMAIN items = 1 .. Len(items) /\ Len(items) \in Nat
    OBVIOUS
  <2> QED
    BY <2>1
<1>14. \A m \in 1 .. Len(whole) : whole[m].id = None => whole[m] \in warnings
  OBVIOUS
<1>15. /\ f + 1 \in DOMAIN whole /\ whole[f + 1] = first
       /\ \A k \in DOMAIN library.playlists[p] :
            f + 1 + k \in DOMAIN whole /\ whole[f + 1 + k] = entry(k)
       /\ \A w \in DOMAIN whole : whole[w].list = p =>
            \/ w = f + 1 /\ whole[w].kind = "playlist"
            \/ /\ whole[w].kind = "entry" /\ whole[w].at \in Nat \ {0}
               /\ w = f + 1 + whole[w].at
  BY <1>4 DEF PlaylistAt
<1> HIDE DEF whole, S, I, W, first, entry
<1>16. PICK to \in [I -> W] :
         /\ \A i \in I : items[i].of = whole[to[i]]
         /\ \A i, j \in I : i < j => to[i] < to[j]
         /\ \A m \in W : \E i \in I : to[i] = m
  BY <1>3
<1>17. \A i \in I : to[i] \in DOMAIN whole /\ to[i] \in Int /\ i \in DOMAIN items /\ i \in Int
  BY <1>7, <1>8, <1>12, <1>13, <1>16
<1>18. ASSUME NEW i \in I, NEW j \in I, to[i] = to[j]
       PROVE  i = j
  <2>1. ~(i < j) /\ ~(j < i)
    BY <1>16, <1>17, <1>18
  <2> QED
    BY <1>17, <2>1
<1>19. ASSUME NEW i \in I, NEW j \in I, to[i] < to[j]
       PROVE  i < j
  <2>1. ~(j < i) /\ i # j
    BY <1>16, <1>17, <1>19
  <2> QED
    BY <1>17, <2>1
<1>20. ASSUME NEW j \in DOMAIN items, items[j].of.list = p
       PROVE  /\ j \in I /\ items[j].of = whole[to[j]]
              /\ \/ to[j] = f + 1 /\ items[j].of.kind = "playlist"
                 \/ /\ items[j].of.kind = "entry" /\ items[j].of.at \in Nat \ {0}
                    /\ to[j] = f + 1 + items[j].of.at
  <2>1. j \in I
    BY <1>5, <1>7, <1>10, <1>20
  <2>2. items[j].of = whole[to[j]] /\ to[j] \in DOMAIN whole
    BY <1>16, <1>17, <2>1
  <2> QED
    BY <1>15, <1>20, <2>1, <2>2
<1>21. ASSUME NEW w \in DOMAIN whole, whole[w] \in Wanted
       PROVE  \E i \in I : to[i] = w /\ items[i].of = whole[w]
  BY <1>8, <1>16, <1>21
<1>22. PICK top \in I : to[top] = f + 1 /\ items[top].of = first
  <2>1. first \in Entries /\ first.id # None
    BY <1>2, <1>9, <1>11, <1>15
  <2>2. first \in Wanted
    BY <1>11, <2>1 DEF Wanted, Favorites
  <2> QED
    BY <1>15, <1>21, <2>2
<1>23. PlannedOnlyAt(first, top)
  <2>1. ASSUME NEW j \in DOMAIN items, items[j].of = first
        PROVE  j = top
    <3>1. j \in I /\ to[j] = f + 1
      BY <1>11, <1>20, <2>1
    <3> QED
      BY <1>18, <1>22, <3>1
  <2> QED
    BY <1>22, <2>1 DEF PlannedOnlyAt
<1>24. ASSUME NEW k \in DOMAIN library.playlists[p], entry(k).id # None
       PROVE  \E i \in DOMAIN items :
                /\ top < i /\ PlannedOnlyAt(entry(k), i)
                /\ \A j \in DOMAIN items : items[j].of.list = p /\ j > i
                     => items[j].of.kind = "entry" /\ items[j].of.at > k
  <2>1. f + 1 + k \in DOMAIN whole /\ whole[f + 1 + k] = entry(k) /\ k \in Nat \ {0}
    BY <1>6, <1>15
  <2>2. entry(k) \in Wanted
    BY <1>2, <1>11, <1>24, <2>1 DEF Wanted, Favorites
  <2>3. PICK i \in I : to[i] = f + 1 + k /\ items[i].of = entry(k)
    BY <1>21, <2>1, <2>2
  <2>4. top < i
    <3>1. to[top] < to[i]
      BY <1>22, <2>1, <2>3
    <3> QED
      BY <1>19, <3>1
  <2>5. ASSUME NEW j \in DOMAIN items, items[j].of = entry(k)
        PROVE  j = i
    <3>1. items[j].of.list = p /\ items[j].of.kind = "entry" /\ items[j].of.at = k
      BY <1>11, <2>5
    <3>2. j \in I /\ to[j] = f + 1 + k
      BY <1>20, <3>1
    <3> QED
      BY <1>18, <2>3, <3>2
  <2>6. PlannedOnlyAt(entry(k), i)
    BY <1>17, <2>3, <2>5 DEF PlannedOnlyAt
  <2>7. ASSUME NEW j \in DOMAIN items, items[j].of.list = p, j > i
        PROVE  items[j].of.kind = "entry" /\ items[j].of.at > k
    <3>1. j \in I /\ i < j
      BY <1>13, <1>17, <1>20, <2>7
    <3>2. to[i] < to[j] /\ to[j] \in Int
      BY <1>16, <1>17, <3>1
    <3>3. \/ to[j] = f + 1
          \/ /\ items[j].of.kind = "entry" /\ items[j].of.at \in Nat \ {0}
             /\ to[j] = f + 1 + items[j].of.at
      BY <1>20, <2>7
    <3> QED
      BY <2>1, <2>3, <3>2, <3>3
  <2> QED
    BY <1>17, <2>4, <2>6, <2>7
<1>25. ASSUME NEW k \in DOMAIN library.playlists[p], entry(k).id = None
       PROVE  entry(k) \in warnings
  BY <1>12, <1>14, <1>15, <1>25
<1>26. top \in DOMAIN items
  BY <1>17
<1> QED
  BY <1>23, <1>24, <1>25, <1>26 DEF first, entry

(* A confirmed plan has gone through every section.                        *)
LEMMA ConfirmedIsComplete ==
  ASSUME PlanTypes, Progress
  PROVE  PlanComplete
<1> SUFFICES ASSUME phase = "confirmed" PROVE PlanComplete
  BY DEF PlanComplete
<1>1. JobInv /\ items \in Seq(Items) /\ stage \in Nat
  BY DEF PlanTypes
<1>2. /\ Len(settings.content) \in Nat
      /\ DOMAIN settings.content = 1 .. Len(settings.content)
      /\ \A n \in 1 .. Len(settings.content) : settings.content[n] \in Sections
  BY <1>1, ContentHolds, JobFacts
<1>3. stage > Len(settings.content)
  BY DEF Progress
<1>4. ASSUME NEW n \in DOMAIN settings.content
      PROVE  LET section == settings.content[n]
                 whole == WorkOf(section)
             IN /\ section \in library.incomplete =>
                     Entry("incomplete", None, 0, section) \in warnings
                /\ section \notin library.incomplete =>
                     /\ Sublist(Ofs, OfSection(section)) = Sublist(whole, Wanted)
                     /\ \A k \in 1 .. Len(whole) :
                          whole[k].id = None => whole[k] \in warnings
  <2>1. Placing(n, stage, turns, Ofs, warnings) /\ n < stage
    BY <1>1, <1>2, <1>3, <1>4 DEF Progress
  <2> QED
    BY <2>1 DEF Placing
<1>5. ASSUME NEW n \in DOMAIN settings.content
      PROVE  LET section == settings.content[n]
                 planned == {i \in DOMAIN items : items[i].of.kind = section}
             IN IF section \in library.incomplete
                THEN Entry("incomplete", None, 0, section) \in warnings
                ELSE section \in Favorites =>
                  /\ \A a \in DOMAIN Track \ Unidentified : Times(library[section], a)
                       = Cardinality({i \in planned : items[i].of.id = a})
                  /\ \A i, j \in planned : i < j =>
                       ~Precedes(section, items[j].of.id, items[i].of.id)
  <2> DEFINE section == settings.content[n]
  <2>1. CASE section \in library.incomplete
    BY <1>4, <2>1
  <2>2. CASE section \notin library.incomplete /\ section \in Favorites
    <3>1. Sublist(Ofs, OfSection(section)) = Sublist(WorkOf(section), Wanted)
      BY <1>4, <2>2
    <3> QED
      BY <1>1, <2>2, <3>1, FavoritesArePlanned
  <2> QED
    BY <2>1, <2>2
<1>6. ASSUME "playlists" \in ToSet(settings.content) \ library.incomplete,
             NEW p \in DOMAIN library.playlists
      PROVE  \E top \in DOMAIN items :
               /\ PlannedOnlyAt(Entry("playlist", p, p, p), top)
               /\ \A k \in DOMAIN library.playlists[p] :
                    LET entry == Entry("entry", p, k, library.playlists[p][k])
                    IN IF entry.id = None THEN entry \in warnings
                       ELSE \E i \in DOMAIN items :
                         /\ top < i /\ PlannedOnlyAt(entry, i)
                         /\ \A j \in DOMAIN items : items[j].of.list = p /\ j > i
                               => items[j].of.kind = "entry" /\ items[j].of.at > k
  <2>1. PICK n \in DOMAIN settings.content : settings.content[n] = "playlists"
    BY <1>6 DEF ToSet
  <2>2. /\ Sublist(Ofs, OfSection("playlists")) = Sublist(WorkOf("playlists"), Wanted)
        /\ \A m \in 1 .. Len(WorkOf("playlists")) :
             WorkOf("playlists")[m].id = None => WorkOf("playlists")[m] \in warnings
    BY <1>4, <1>6, <2>1
  <2> QED
    BY <1>1, <2>2, PlaylistsArePlanned
<1> QED
  BY <1>5, <1>6 DEF PlanComplete

(* What is confirmed is the whole of what was asked for, once: every       *)
(* identified favourite as often as the library has it and in the          *)
(* requested order, every playlist by one item and behind it each          *)
(* resolvable entry by one item, in the order of their positions, and a    *)
(* warning for whatever is left out (planner.py, ordering.py). It takes a  *)
(* list of sections in which none comes twice: the command line does not   *)
(* see to that (commands.py), and of `tracks,tracks' every track is        *)
(* planned twice.                                                          *)
THEOREM PlansAreComplete ==
  ASSUME DistinctContent
  PROVE  PlanSpec => []PlanComplete
<1>1. PlanInit => PlanTypes /\ Progress
  BY PlanTypesInit, ProgressInit
<1>2. PlanTypes /\ Progress /\ [PlanNext]_plan => PlanTypes' /\ Progress'
  BY PlanTypesStep, ProgressStep
<1>3. PlanTypes /\ Progress => PlanComplete
  BY ConfirmedIsComplete
<1> QED
  BY <1>1, <1>2, <1>3, PTL DEF PlanSpec
=============================================================================
