------------------------ MODULE ConfigWatcherProofs ------------------------
(***************************************************************************)
(* Proofs about ConfigWatcher, for any number of edits, of which any are   *)
(* broken, whole or half-written.                                          *)
(***************************************************************************)
EXTENDS ConfigWatcher, SequenceTheorems, TLAPS

-----------------------------------------------------------------------------
(* The invariant *)

WatcherTypeOK ==
    /\ edits \in 0 .. MaxEdits
    /\ file \in Content
    /\ channel \in Seq(Content)
    /\ applier \in {"receive", "write", "hook"}
    /\ taken \in Content
    /\ shared \in Content

\* A file that is there holds the latest edit, written or being written.
FileIsLatest == file # Missing => file.edit = edits

\* Edits travel in order from the file to the running configuration: what is
\* queued is ascending and no older than what the applier took last, which is
\* no older than what is in force.
InOrder ==
    /\ shared.edit <= taken.edit
    /\ taken.edit <= edits
    /\ \A n \in 1 .. Len(channel) : taken.edit <= channel[n].edit /\ channel[n].edit <= edits
    /\ \A m, n \in 1 .. Len(channel) : m <= n => channel[m].edit <= channel[n].edit

\* Nothing that does not validate travels.
AllValid ==
    /\ Validates(taken) /\ Validates(shared)
    /\ \A n \in 1 .. Len(channel) : Validates(channel[n])

WatcherInv == WatcherTypeOK /\ FileIsLatest /\ InOrder /\ AllValid

LEMMA InitWatcher == Init => WatcherInv
<1> SUFFICES ASSUME Init PROVE WatcherInv
  OBVIOUS
<1>1. Text(0) \in Content /\ Text(0).edit = 0
  BY EditsAssumption DEF Text, Content
<1>2. Validates(Text(0))
  BY BrokenAssumption DEF Validates, Text
<1> QED
  BY <1>1, <1>2, EditsAssumption
     DEF Init, WatcherInv, WatcherTypeOK, FileIsLatest, InOrder, AllValid

\* The file changes: nothing that travels does, and edits only grow.
LEMMA EditKeeps == WatcherInv /\ Editor => WatcherInv'
<1> SUFFICES ASSUME WatcherInv, Editor PROVE WatcherInv'
  OBVIOUS
<1> USE DEF WatcherInv
<1>1. edits \in 0 .. MaxEdits /\ MaxEdits \in Nat
  BY EditsAssumption DEF WatcherTypeOK
<1>2. UNCHANGED running
  BY DEF Editor, BeginSave, EndSave, Replace, Remove, NewContent, Change
<1>3. edits' \in edits .. MaxEdits
  <2>1. edits' = edits \/ (edits < MaxEdits /\ edits' = edits + 1)
    BY DEF Editor, BeginSave, EndSave, Replace, Remove, NewContent
  <2> QED
    BY <1>1, <2>1
<1>4. file' \in Content /\ FileIsLatest'
  <2>1. CASE BeginSave
    BY <1>1, <2>1 DEF BeginSave, NewContent, Change, Torn, Content, FileIsLatest
  <2>2. CASE EndSave
    BY <1>1, <2>2 DEF EndSave, Change, Text, Content, FileIsLatest, WatcherTypeOK
  <2>3. CASE Replace
    BY <1>1, <2>3 DEF Replace, NewContent, Change, Text, Content, FileIsLatest
  <2>4. CASE \E visible \in BOOLEAN : Remove(visible)
    BY <1>1, <2>4 DEF Remove, Change, Missing, Content, FileIsLatest
  <2> QED
    BY <2>1, <2>2, <2>3, <2>4 DEF Editor
<1>5. InOrder'
  <2>1. taken.edit \in Nat /\ \A n \in 1 .. Len(channel) : channel[n].edit \in Nat
    <3>1. \A c \in Content : c.edit \in Nat
      BY EditsAssumption DEF Content
    <3>2. taken \in Content /\ \A n \in 1 .. Len(channel) : channel[n] \in Content
      BY DEF WatcherTypeOK
    <3> QED
      BY <3>1, <3>2
  <2> QED
    BY <1>1, <1>2, <1>3, <2>1 DEF InOrder, running
<1> QED
  BY <1>1, <1>2, <1>3, <1>4, <1>5 DEF WatcherTypeOK, AllValid, running

LEMMA ReadKeeps == WatcherInv /\ ReadFile => WatcherInv'
<1> SUFFICES ASSUME WatcherInv, ReadFile PROVE WatcherInv'
  OBVIOUS
<1> USE DEF WatcherInv
<1>1. UNCHANGED <<edits, file, applier, taken, shared>> /\ file # Missing
  BY DEF ReadFile, disk
<1>2. CASE channel' = channel
  BY <1>1, <1>2 DEF WatcherTypeOK, FileIsLatest, InOrder, AllValid
<1>3. CASE Validates(file) /\ channel' = Append(channel, file)
  <2>1. /\ channel' \in Seq(Content)
        /\ Len(channel') = Len(channel) + 1
        /\ \A n \in 1 .. Len(channel) : channel'[n] = channel[n]
        /\ channel'[Len(channel')] = file
    BY <1>3 DEF WatcherTypeOK
  <2>2. Len(channel) \in Nat
    BY DEF WatcherTypeOK
  <2>3. file.edit = edits /\ edits \in Nat
    BY <1>1 DEF FileIsLatest, WatcherTypeOK
  <2>4. ASSUME NEW n \in 1 .. Len(channel')
        PROVE  \/ n \in 1 .. Len(channel) /\ channel'[n] = channel[n]
               \/ n = Len(channel') /\ channel'[n] = file
    BY <2>1, <2>2
  <2>5. \A n \in 1 .. Len(channel') : Validates(channel'[n])
    BY <1>3, <2>4 DEF AllValid
  <2>6. InOrder'
    BY <1>1, <2>1, <2>2, <2>3, <2>4, SMTT(30) DEF InOrder
  <2> QED
    BY <1>1, <2>1, <2>5, <2>6 DEF WatcherTypeOK, FileIsLatest, AllValid
<1> QED
  BY <1>2, <1>3 DEF ReadFile

LEMMA ReceiveKeeps == WatcherInv /\ Receive => WatcherInv'
<1> SUFFICES ASSUME WatcherInv, Receive PROVE WatcherInv'
  OBVIOUS
<1> USE DEF WatcherInv
<1>1. /\ UNCHANGED <<edits, file, shared>> /\ applier' = "write"
      /\ channel # <<>> /\ taken' = Head(channel) /\ channel' = Tail(channel)
  BY DEF Receive, disk
<1>2. /\ channel \in Seq(Content) /\ Len(channel) \in Nat \ {0}
      /\ taken' = channel[1]
      /\ channel' \in Seq(Content) /\ Len(channel') = Len(channel) - 1
      /\ \A n \in 1 .. Len(channel') : channel'[n] = channel[n + 1]
  BY <1>1 DEF WatcherTypeOK
<1>3. \A n \in 1 .. Len(channel') : n + 1 \in 1 .. Len(channel)
  BY <1>2
<1>4. 1 \in 1 .. Len(channel) /\ taken' \in Content
  BY <1>2
<1>5. AllValid'
  BY <1>1, <1>2, <1>3, <1>4 DEF AllValid
<1>6. InOrder'
  <2>1. shared.edit \in Nat /\ taken.edit \in Nat /\ taken'.edit \in Nat
    BY <1>4 DEF WatcherTypeOK, Content
  <2>2. shared.edit <= taken'.edit /\ taken'.edit <= edits
    BY <1>2, <1>4, <2>1 DEF InOrder
  <2>3. ASSUME NEW n \in 1 .. Len(channel')
        PROVE  taken'.edit <= channel'[n].edit /\ channel'[n].edit <= edits
    BY <1>2, <1>3, <1>4 DEF InOrder
  <2>4. ASSUME NEW m \in 1 .. Len(channel'), NEW n \in 1 .. Len(channel'), m <= n
        PROVE  channel'[m].edit <= channel'[n].edit
    BY <1>2, <1>3, <2>4, SMTT(30) DEF InOrder
  <2> QED
    BY <1>1, <2>2, <2>3, <2>4 DEF InOrder
<1> QED
  BY <1>1, <1>2, <1>4, <1>5, <1>6 DEF WatcherTypeOK, FileIsLatest

LEMMA NextWatcher == WatcherInv /\ [Next]_vars => WatcherInv'
<1> SUFFICES ASSUME WatcherInv, [Next]_vars PROVE WatcherInv'
  OBVIOUS
<1>1. CASE Editor
  BY <1>1, EditKeeps
<1>2. CASE ReadFile
  BY <1>2, ReadKeeps
<1>3. CASE Receive
  BY <1>3, ReceiveKeeps
<1>4. CASE Apply
  <2>1. UNCHANGED <<edits, file, channel, taken>> /\ shared' = taken /\ applier' = "hook"
    BY <1>4 DEF Apply, disk
  <2>2. taken.edit \in Nat
    BY DEF WatcherInv, WatcherTypeOK, Content
  <2> QED
    BY <2>1, <2>2 DEF WatcherInv, WatcherTypeOK, FileIsLatest, InOrder, AllValid
<1>5. CASE StartWatcher \/ Notified \/ ReadMissing \/ FireHook \/ BeginReading \/ EndReading
          \/ UNCHANGED vars
  <2>1. UNCHANGED <<edits, file, channel, taken, shared>> /\ applier' \in {applier, "receive"}
    BY <1>5 DEF StartWatcher, Notified, ReadMissing, FireHook, BeginReading, EndReading, vars,
                disk, running
  <2> QED
    BY <2>1 DEF WatcherInv, WatcherTypeOK, FileIsLatest, InOrder, AllValid
<1> QED
  BY <1>1, <1>2, <1>3, <1>4, <1>5 DEF Next, NotifyThread, Applier

LEMMA WatcherInvariant == Spec => []WatcherInv
BY InitWatcher, NextWatcher, PTL DEF Spec

-----------------------------------------------------------------------------
(* Reloads go forward *)

\* The configuration in force is replaced by a valid one that is no older,
\* however the file was edited meanwhile and whenever the notify thread and
\* the applier get round to it (src/config.rs: spawn_watcher,
\* spawn_config_applier).
THEOREM NeverBackToOlderAlways == Spec => NeverBackToOlder
<1> DEFINE Forward == shared'.edit >= shared.edit /\ Validates(shared')
<1>1. WatcherInv /\ [Next]_vars => [Forward]_shared
  <2> SUFFICES ASSUME WatcherInv, Next, shared' # shared PROVE Forward
    BY DEF vars
  <2>1. Apply
    BY DEF Next, Editor, BeginSave, EndSave, Replace, Remove, NewContent, Change, StartWatcher,
           NotifyThread, Notified, ReadMissing, ReadFile, Applier, Receive, FireHook,
           BeginReading, EndReading, disk, running
  <2>2. shared.edit \in Nat /\ taken.edit \in Nat
    BY DEF WatcherInv, WatcherTypeOK, Content
  <2> QED
    BY <2>1, <2>2 DEF Apply, WatcherInv, InOrder, AllValid
<1>2. Spec => [][Forward]_shared
  <2> HIDE DEF Forward
  <2> QED
    BY <1>1, WatcherInvariant, PTL DEF Spec
<1> QED
  BY <1>2 DEF NeverBackToOlder
=============================================================================
