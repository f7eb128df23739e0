--------------------------- MODULE CheckpointStore ---------------------------
(***************************************************************************)
(* What the transfer of tidal_manager needs of its checkpoint: one durable *)
(* value, found by a new process as it was last stored, whenever the       *)
(* previous one stopped.  A process that stops in the middle of a store    *)
(* leaves the old value or the new one, and a new one whose store never    *)
(* returned can be undone by the next stop of that kind.  A checkpoint can *)
(* become unreadable and is then refused, never read as something else.    *)
(***************************************************************************)
CONSTANTS States, Empty, None

VARIABLES
  mem,        \* the state the process works on, or None
  durable,    \* what a new process would find, or None
  sure,       \* what the last store that returned has left, or None
  readable    \* whether there is nothing there that cannot be read

stored == <<durable, sure, readable>>
vars   == <<mem, stored>>

Init == mem = None /\ durable = None /\ sure = None /\ readable = TRUE

Begin  == mem = None /\ mem' = Empty /\ UNCHANGED stored

Change == mem \in States /\ mem' \in States /\ UNCHANGED stored

Store  == /\ mem \in States /\ mem' = mem
          /\ durable' = mem /\ sure' = mem /\ readable' = TRUE

Stop   == mem' = None /\ UNCHANGED stored

StopStoring == /\ mem \in States /\ mem' = None
               /\ durable' \in {mem, sure}
               /\ UNCHANGED <<sure, readable>>

Resume == mem = None /\ durable # None /\ mem' = durable /\ UNCHANGED stored

Clear  == durable' = None /\ sure' = None /\ readable' = TRUE /\ mem' = mem

Ruin   == durable' = None /\ sure' = None /\ readable' = FALSE /\ mem' = mem

Next == \/ Begin \/ Change \/ Store \/ Stop \/ StopStoring \/ Resume
        \/ Clear \/ Ruin

Spec == Init /\ [][Next]_vars
============================================================================
