----------------------------- MODULE FlagCache -----------------------------
(***************************************************************************)
(* The system flags: the table system_flags and the copy of it that        *)
(* internal/flag/service.go keeps in memory.                               *)
(*                                                                         *)
(* SetFlag writes the row and afterwards, under a lock, the copy.          *)
(* IsEnabled reads the copy, and loads the table into it when the flag is  *)
(* missing or the last load is five minutes old; the lock is held from the *)
(* query of the table to the last assignment.  With the lock it looks once *)
(* more at the age, not at the flag.  When five minutes are over is open.  The flags that are set are rows of the table.            *)
(***************************************************************************)
CONSTANTS Flags,     \* keys of system_flags
          Setters,   \* requests to set a flag at the same time
          NoFlag     \* in the place of a key

ASSUME NoFlagAssumption == NoFlag \notin Flags

VARIABLES
  row,      \* system_flags.value
  copy,     \* cache
  recent,   \* lastFetch is less than five minutes ago
  missed,   \* whether a caller who found its flag missing waits for the lock
  loading,  \* whether a loadFlags holds the lock
  loaded,   \* what it has read
  setter,   \* setter[r]: the flag request r has written to the table, and the value
  tangled   \* history: flags set by two requests at once, or by one that failed
            \* half way, since the table was last read with nobody setting them

flagVars == <<row, copy, recent, missed, loading, loaded, setter, tangled>>

Values == {"on", "off"}
Unknown == [f \in Flags |-> "none"]

SetterIdle == [flag |-> NoFlag, value |-> "off"]
Setter == [flag : Flags, value : Values] \union {SetterIdle}

Setting(f) == {r \in Setters : setter[r].flag = f}

\* Nothing is in memory yet: see FlagsRestart.
FlagsInit ==
  /\ row = [f \in Flags |-> "off"]
  /\ copy = Unknown
  /\ recent = FALSE
  /\ missed = FALSE
  /\ loading = FALSE
  /\ loaded = Unknown
  /\ setter = [r \in Setters |-> SetterIdle]
  /\ tangled = {}

\* SetFlag: Update.
SetRow(r, f, v) ==
  /\ setter[r] = SetterIdle
  /\ row' = [row EXCEPT ![f] = v]
  /\ setter' = [setter EXCEPT ![r] = [flag |-> f, value |-> v]]
  /\ tangled' = IF Setting(f) = {} THEN tangled ELSE tangled \union {f}
  /\ UNCHANGED <<copy, recent, missed, loading, loaded>>

\* Writing the copy without its lock:
CopyIsOpen == TRUE

\* ... and as the code waits for it.
CopyIsFree == ~loading

\* SetFlag: the copy.
SetCopy(r) ==
  /\ setter[r] # SetterIdle
  /\ CopyIsFree
  /\ copy' = [copy EXCEPT ![setter[r].flag] = setter[r].value]
  /\ setter' = [setter EXCEPT ![r] = SetterIdle]
  /\ UNCHANGED <<row, recent, missed, loading, loaded, tangled>>

\* The update is committed and its answer lost.
SetIsLost(r) ==
  /\ setter[r] # SetterIdle
  /\ tangled' = tangled \union {setter[r].flag}
  /\ setter' = [setter EXCEPT ![r] = SetterIdle]
  /\ UNCHANGED <<row, copy, recent, missed, loading, loaded>>

\* IsEnabled finds its flag missing ...
FindMissing ==
  /\ CopyIsFree
  /\ \E f \in Flags : copy[f] = "none"
  /\ missed' = TRUE
  /\ UNCHANGED <<row, copy, recent, loading, loaded, setter, tangled>>

\* ... and has the lock: GetAll, even if another caller has loaded the table
\* meanwhile; or the copy is old.  If it fails nothing changes.
LoadRead ==
  /\ CopyIsFree
  /\ \/ missed /\ missed' \in BOOLEAN
     \/ ~recent /\ UNCHANGED missed
  /\ loading' = TRUE
  /\ loaded' = row
  /\ tangled' = {g \in tangled : Setting(g) # {}}
  /\ UNCHANGED <<row, copy, recent, setter>>

LoadStore ==
  /\ loading
  /\ copy' = loaded
  /\ recent' = TRUE
  /\ loading' = FALSE
  /\ loaded' = Unknown
  /\ UNCHANGED <<row, missed, setter, tangled>>

CopyAges ==
  /\ recent
  /\ recent' = FALSE
  /\ UNCHANGED <<row, copy, missed, loading, loaded, setter, tangled>>

\* The server starts again: what is in memory is gone, running requests too.
\* NewFlagService loads the table, unless that fails.
FlagsRestart ==
  /\ copy' \in {row, Unknown}
  /\ recent' = (copy' = row)
  /\ missed' = FALSE
  /\ loading' = FALSE
  /\ loaded' = Unknown
  /\ setter' = [r \in Setters |-> SetterIdle]
  /\ tangled' = {}
  /\ UNCHANGED row

SetFlag(r) ==
  \/ \E f \in Flags, v \in Values : SetRow(r, f, v)
  \/ SetCopy(r) \/ SetIsLost(r)

IsEnabled == FindMissing \/ LoadRead \/ LoadStore

FlagsNext ==
  \/ \E r \in Setters : SetFlag(r)
  \/ IsEnabled
  \/ CopyAges
  \/ FlagsRestart

FlagsSpec == FlagsInit /\ [][FlagsNext]_flagVars

FlagsTypeOK ==
  /\ row \in [Flags -> Values]
  /\ copy \in [Flags -> Values \union {"none"}]
  /\ recent \in BOOLEAN
  /\ missed \in BOOLEAN
  /\ loading \in BOOLEAN
  /\ loaded \in [Flags -> Values \union {"none"}]
  /\ setter \in [Setters -> Setter]
  /\ tangled \subseteq Flags

(***************************************************************************)
(* The copy of a flag is what the table says when nobody is setting the    *)
(* flag or loading the table, however loads and settings interleave -      *)
(* except a flag two requests set at once, or one failed to set, until the *)
(* table is read again.                                                    *)
(***************************************************************************)
CopyAgrees ==
  \A f \in Flags \ tangled :
      ~loading /\ Setting(f) = {} /\ copy[f] # "none" => copy[f] = row[f]
=============================================================================
