--------------------------- MODULE ConfigWatcher ---------------------------
(***************************************************************************)
(* Hot reload from the file to the running configuration (spawn_watcher    *)
(* and spawn_config_applier of src/src/config.rs): an editor that saves in *)
(* place or by renaming, the notify thread that reads the file when it     *)
(* gets round to an event, the unbounded channel, and the applier, which   *)
(* waits for the requests that are reading the configuration.              *)
(***************************************************************************)
EXTENDS Naturals, Sequences

CONSTANTS
    MaxEdits,  \* bound on the contents the file is given
    Broken,    \* the edits whose complete text does not validate
    TornValid  \* the edits whose half-written text does: an empty file does

ASSUME EditsAssumption == MaxEdits \in Nat
ASSUME BrokenAssumption == Broken \cup TornValid \subseteq 1..MaxEdits

VARIABLES
    edits,    \* contents given so far; the n-th is content n, the first is 0
    file,     \* what the path holds
    watched,  \* the directory watch is in place
    events,   \* matching events the notify thread has not handled yet
    attempt,  \* the notify thread: reads of the current event so far, or Idle
    channel,  \* validated configurations on their way to the applier
    applier,  \* where the applier stands
    taken,    \* the configuration the applier has taken from the channel
    shared,   \* the configuration in force
    reading,  \* requests hold the configuration's read lock
    hooked,   \* the configuration in force when the reload hook last fired
    seen      \* history variable: the file's last change was watched

vars == <<edits, file, watched, events, attempt, channel, applier, taken,
          shared, reading, hooked, seen>>
disk == <<edits, file, events, seen>>
running == <<channel, applier, taken, shared, hooked>>

Idle == 4
Missing == [edit |-> 0, whole |-> FALSE]
Content == [edit : 0..MaxEdits, whole : BOOLEAN]
Text(n) == [edit |-> n, whole |-> TRUE]
Torn(n) == [edit |-> n, whole |-> FALSE]

\* Config::parse_file and validate.
Validates(c) == IF c.whole THEN c.edit \notin Broken ELSE c.edit \in TornValid

\* serve has parsed the file and is about to spawn the watcher.
Init ==
    /\ edits = 0
    /\ file = Text(0)
    /\ watched = FALSE
    /\ events = 0
    /\ attempt = Idle
    /\ channel = <<>>
    /\ applier = "receive"
    /\ taken = Text(0)
    /\ shared = Text(0)
    /\ reading = FALSE
    /\ hooked = Text(0)
    /\ seen = TRUE

---------------------------------------------------------------------------
(* The file system: a change of the path, and the event it makes.          *)

Change(content, visible) ==
    /\ file' = content
    /\ seen' = watched
    /\ events' = IF watched /\ visible THEN events + 1 ELSE events
    /\ UNCHANGED <<watched, attempt, reading, running>>

NewContent(content) == edits < MaxEdits /\ edits' = edits + 1 /\ Change(content, TRUE)

\* An editor truncates the file, or creates it, and writes it.
BeginSave == (file.whole \/ file = Missing) /\ NewContent(Torn(edits + 1))
EndSave ==
    /\ ~file.whole /\ file # Missing
    /\ Change(Text(file.edit), TRUE)
    /\ UNCHANGED edits

\* An editor renames its temporary file over the path.
Replace == NewContent(Text(edits + 1))

\* The file is moved away, perhaps to be written anew, or deleted; a deletion
\* is neither a Modify nor a Create event.
Remove(visible) ==
    /\ file # Missing
    /\ Change(Missing, visible)
    /\ UNCHANGED edits

StartWatcher ==
    /\ ~watched
    /\ watched' = TRUE
    /\ UNCHANGED <<disk, attempt, reading, running>>

---------------------------------------------------------------------------
(* The notify thread.                                                      *)

\* An event that touches the config file.
Notified ==
    /\ attempt = Idle
    /\ events > 0
    /\ events' = events - 1
    /\ attempt' = 0
    /\ UNCHANGED <<edits, file, seen, watched, reading, running>>

\* No file: an editor may be about to put it back; three attempts in all.
ReadMissing ==
    /\ attempt < Idle /\ file = Missing
    /\ attempt' = IF attempt < 2 THEN attempt + 1 ELSE Idle
    /\ UNCHANGED <<disk, watched, reading, running>>

\* The file as it is now, not as it was when the event was made.
ReadFile ==
    /\ attempt < Idle /\ file # Missing
    /\ attempt' = Idle
    /\ channel' = IF Validates(file) THEN Append(channel, file) ELSE channel
    /\ UNCHANGED <<disk, watched, reading, applier, taken, shared, hooked>>

---------------------------------------------------------------------------
(* The applier and the requests.                                           *)

\* Bug: an update that finds the lock busy is dropped.
ReceiveOrDrop ==
    /\ applier = "receive" /\ channel # <<>>
    /\ taken' = Head(channel)
    /\ channel' = Tail(channel)
    /\ applier' = IF reading THEN "receive" ELSE "write"
    /\ UNCHANGED <<disk, watched, attempt, reading, shared, hooked>>

\* Bug: the latest update first.
ReceiveLatest ==
    /\ applier = "receive" /\ channel # <<>>
    /\ taken' = channel[Len(channel)]
    /\ channel' = SubSeq(channel, 1, Len(channel) - 1)
    /\ applier' = "write"
    /\ UNCHANGED <<disk, watched, attempt, reading, shared, hooked>>

Receive ==
    /\ applier = "receive" /\ channel # <<>>
    /\ taken' = Head(channel)
    /\ channel' = Tail(channel)
    /\ applier' = "write"
    /\ UNCHANGED <<disk, watched, attempt, reading, shared, hooked>>

\* The write lock is free of the readers that came before the writer.
Apply ==
    /\ applier = "write" /\ ~reading
    /\ shared' = taken
    /\ applier' = "hook"
    /\ UNCHANGED <<disk, watched, attempt, reading, channel, taken, hooked>>

\* Codex's own cache is unlinked, then the hook fires.
FireHook ==
    /\ applier = "hook"
    /\ hooked' = shared
    /\ applier' = "receive"
    /\ UNCHANGED <<disk, watched, attempt, reading, channel, taken, shared>>

\* Requests take and release read guards; tokio's lock lets no new reader
\* past a waiting writer.
BeginReading ==
    /\ ~reading /\ applier # "write"
    /\ reading' = TRUE
    /\ UNCHANGED <<disk, watched, attempt, running>>

EndReading ==
    /\ reading
    /\ reading' = FALSE
    /\ UNCHANGED <<disk, watched, attempt, running>>

---------------------------------------------------------------------------
Editor == BeginSave \/ EndSave \/ Replace \/ \E visible \in BOOLEAN : Remove(visible)
NotifyThread == Notified \/ ReadMissing \/ ReadFile
Applier == Receive \/ Apply \/ FireHook

Next == Editor \/ StartWatcher \/ NotifyThread \/ Applier \/ BeginReading \/ EndReading

\* The threads and tasks of the process run; nothing makes an editor save,
\* finish a save, or stop.
Fairness == WF_vars(NotifyThread) /\ WF_vars(Applier) /\ WF_vars(EndReading)

Spec == Init /\ [][Next]_vars /\ Fairness

---------------------------------------------------------------------------
(* Properties.                                                             *)

\* However often and however the file is edited, moved or deleted, and however
\* slow the readers are, the process never goes back to an older edit than the
\* one in force, nor to contents that do not validate (the channel is a queue, and the file is read behind an event).
NeverBackToOlder == [][shared'.edit >= shared.edit /\ Validates(shared')]_shared

\* config.rs: "an update is queued while the lock is busy, never dropped".  Once
\* the editors leave the file alone, what it holds is in force, and the hook has
\* fired for it, if it is valid and its last change came after the watch was set
\* up.
LastEditInForce == <>[](seen /\ Validates(file) => shared = file /\ hooked = file)
=============================================================================
