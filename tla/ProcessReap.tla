---- MODULE ProcessReap ----
(***************************************************************************)
(* The children of turns and what becomes of them: pids.ndjson             *)
(* (process/fs-ledger.ts), the `spawned` sink with and without the mute,   *)
(* the kill pass of shutdown, and the reap of the next boot                *)
(* (core/index.ts reapOne), over operating systems that reuse pids and     *)
(* reboot.  The storage root may be carried to another host between two    *)
(* lives of the server.                                                    *)
(*                                                                         *)
(* A birth is an OS creation time: no two processes share one.  A turn's   *)
(* own life is SessionTurn's; here it lasts from its child's spawn to the  *)
(* child's end, and a child may ignore SIGTERM.                            *)
(***************************************************************************)
EXTENDS AppendLog

CONSTANTS
  Hosts, Pids, Images,
  CLI,         \* the image of every child
  MaxBirths,   \* bound: processes started
  MaxLives,    \* bound: starts of the server
  MaxReboots   \* bound

ASSUME ReapAssumption == CLI \in Images /\ IsFiniteSet(Pids)

VARIABLES
  proc,      \* host -> pid -> the process that holds it
  births,    \* processes started so far
  reboots,   \* host -> its boots
  at,        \* the host the server runs on
  phase,     \* "down", "reaping", "serving" or "muted"
  life,      \* starts of the server so far
  ledger,    \* pids.ndjson
  reading,   \* children whose creation time the spawned handler is reading
  doomed,    \* pids boot has cleared for killing, not yet killed
  toReap,    \* records boot has yet to look at
  recorded,  \* history: births of the children whose own record landed
  writtenOff, \* history: births of the children a shutdown's tombstone outlived
  raced,     \* history: a pid changed hands while the server looked away
  strangers  \* history: processes killed that no server spawned

osVars == <<proc, births, reboots>>
serverVars == <<at, phase, life>>
history == <<recorded, writtenOff, raced, strangers>>
reapVars == <<osVars, serverVars, ledger, reading, doomed, toReap, history>>

Nobody == [birth |-> 0, image |-> CLI, life |-> 0, deaf |-> FALSE]
Alive(h, p) == proc[h][p] # Nobody
\* life 0: a process no server spawned.
Process(image, l, deaf) == [birth |-> births + 1, image |-> image, life |-> l, deaf |-> deaf]
Starts(h, p, process) ==
  /\ ~Alive(h, p)
  /\ births < MaxBirths
  /\ births' = births + 1
  /\ proc' = [proc EXCEPT ![h][p] = process]
Kill(h, p) == proc' = [proc EXCEPT ![h][p] = Nobody]

\* The two line shapes of pids.ndjson; Latest folds them.
ProcessRecord(p, birth) ==
  [id |-> p, exited |-> FALSE, hostname |-> at, boot |-> reboots[at], osCreatedAt |-> birth]
ProcessTombstone(p) ==
  [id |-> p, exited |-> TRUE, hostname |-> at, boot |-> 0, osCreatedAt |-> 0]
OpenPids == {p \in Ids(ledger) : ~Latest(ledger, p).exited}

ReapInit ==
  /\ proc = [h \in Hosts |-> [p \in Pids |-> Nobody]]
  /\ births = 0
  /\ reboots = [h \in Hosts |-> 1]
  /\ at \in Hosts
  /\ phase = "serving"
  /\ life = 1
  /\ ledger = EmptyLog
  /\ reading = {} /\ doomed = {} /\ toReap = {}
  /\ recorded = {} /\ writtenOff = {} /\ raced = FALSE /\ strangers = {}

\* A child is spawned and reported in the same tick.  With a live turn its
\* record is on its way; one whose turn is gone gets none (D102).
Spawn(p) ==
  /\ phase = "serving"
  /\ \E deaf \in BOOLEAN : Starts(at, p, Process(CLI, life, deaf))
  /\ reading' \in {reading, reading \cup {[pid |-> p, birth |-> births']}}
  /\ UNCHANGED <<reboots, serverVars, ledger, doomed, toReap, history>>

\* A child spawned behind the mute is killed at the sink and not recorded.
SpawnMuted(p) ==
  /\ phase = "muted"
  /\ ~Alive(at, p) /\ births < MaxBirths
  /\ births' = births + 1
  /\ UNCHANGED <<proc, reboots, serverVars, ledger, reading, doomed, toReap, history>>

\* getOsCreatedAt answers with whatever holds the pid by then, or fails; then
\* appendPid, whose own failure nobody looks at.
CreatedAt(h, p) == {0, proc[h][p].birth}
Record(child) ==
  /\ child \in reading
  /\ reading' = reading \ {child}
  /\ \E birth \in CreatedAt(at, child.pid) :
     \E out \in Appends(ledger, ProcessRecord(child.pid, birth), FALSE) :
       /\ ledger' = out.log
       /\ recorded' = IF out.ok /\ ~Glues(ledger) /\ birth = child.birth
                      THEN recorded \cup {birth} ELSE recorded
  /\ UNCHANGED <<osVars, serverVars, doomed, toReap, writtenOff, raced, strangers>>

\* A process ends; the server notices the end of a turn and kills by itself.
Exit(h, p) ==
  /\ Alive(h, p)
  /\ Kill(h, p)
  /\ UNCHANGED <<births, reboots, serverVars, ledger, reading, doomed, toReap, history>>

\* The machine runs other things, which may get a pid the server still uses.
Stranger(h, p, image) ==
  /\ Starts(h, p, Process(image, 0, FALSE))
  /\ raced' = (raced \/ (h = at /\ (p \in doomed \/ \E child \in reading : child.pid = p)))
  /\ UNCHANGED <<reboots, serverVars, ledger, reading, doomed, toReap, recorded, writtenOff, strangers>>

Reboot(h) ==
  /\ reboots[h] <= MaxReboots
  /\ h = at => phase = "down"
  /\ reboots' = [reboots EXCEPT ![h] = @ + 1]
  /\ proc' = [proc EXCEPT ![h] = [p \in Pids |-> Nobody]]
  /\ UNCHANGED <<births, serverVars, ledger, reading, doomed, toReap, history>>

\* shutdown: the mute, then every live turn's child is signalled and given its
\* tombstone, unless the append fails.  A deaf child outlives the signal, and the
\* timer that would follow it up dies with the server.
Added(log, next) == {next.lines[i].id : i \in DOMAIN next.lines \ DOMAIN log.lines}
Shutdown ==
  /\ phase = "serving"
  /\ phase' = "muted"
  /\ LET children == {p \in Pids : proc[at][p].life = life}
     IN /\ proc' = [proc EXCEPT ![at] = [p \in Pids |->
                      IF p \in children /\ ~proc[at][p].deaf THEN Nobody ELSE proc[at][p]]]
        /\ ledger' \in Interrupted(ledger, {ProcessTombstone(p) : p \in children})
        /\ writtenOff' = writtenOff \cup {proc'[h][p].birth : h \in Hosts, p \in Added(ledger, ledger')}
  /\ UNCHANGED <<births, reboots, at, life, reading, doomed, toReap, recorded, raced, strangers>>

\* The process ends: after shutdown, or by a crash at any point.
Stop ==
  /\ phase # "down"
  /\ phase' = "down"
  /\ reading' = {} /\ doomed' = {} /\ toReap' = {}
  /\ ledger' \in {ledger} \cup (IF reading \cup toReap = {} THEN {} ELSE {Torn(ledger)})
  /\ UNCHANGED <<osVars, at, life, history>>

\* boot, which holds the storage root: readOpenPids, here or on another host.
ReapBoot(h) ==
  /\ phase = "down" /\ life < MaxLives
  /\ phase' = "reaping"
  /\ at' = h /\ life' = life + 1
  /\ toReap' = {Latest(ledger, p) : p \in OpenPids}
  /\ UNCHANGED <<osVars, ledger, reading, doomed, history>>

\* reapOne: the record's own host, this boot of the machine, the live image
\* and the exact creation time, which both must have been readable.
AnyHost(record) == TRUE
SameHost(record) == record.hostname = at
IsImage(record) ==
  /\ record.boot = reboots[at]
  /\ Alive(at, record.id) /\ proc[at][record.id].image = CLI
  /\ record.osCreatedAt # 0
IsChild(record) ==
  /\ record.boot = reboots[at]
  /\ Alive(at, record.id) /\ proc[at][record.id].image = CLI
  /\ record.osCreatedAt # 0 /\ record.osCreatedAt = proc[at][record.id].birth
Leave(record) ==
  /\ record \in toReap /\ ~SameHost(record)
  /\ toReap' = toReap \ {record}
  /\ UNCHANGED <<osVars, serverVars, ledger, reading, doomed, history>>
Clear(record) ==
  /\ record \in toReap /\ SameHost(record) /\ doomed = {}
  /\ IsChild(record)
  /\ doomed' = {record.id}
  /\ UNCHANGED <<osVars, serverVars, ledger, reading, toReap, history>>
Tombstoned(record) ==
  /\ toReap' = toReap \ {record}
  /\ \E out \in Appends(ledger, ProcessTombstone(record.id), FALSE) : ledger' = out.log
Reap(record) ==
  /\ record \in toReap /\ record.id \in doomed
  /\ strangers' = IF Alive(at, record.id) /\ proc[at][record.id].life = 0
                  THEN strangers \cup {proc[at][record.id].birth} ELSE strangers
  /\ Kill(at, record.id)
  /\ doomed' = {}
  /\ Tombstoned(record)
  /\ UNCHANGED <<births, reboots, serverVars, reading, recorded, writtenOff, raced>>
Spare(record) ==
  /\ record \in toReap /\ SameHost(record) /\ doomed = {}
  /\ ~IsChild(record)
  /\ Tombstoned(record)
  /\ UNCHANGED <<osVars, serverVars, reading, doomed, history>>

\* Only then is anything rehydrated or served.
Serve ==
  /\ phase = "reaping" /\ toReap = {}
  /\ phase' = "serving"
  /\ UNCHANGED <<osVars, at, life, ledger, reading, doomed, toReap, history>>

ReapNext ==
  \/ \E p \in Pids : Spawn(p) \/ SpawnMuted(p)
  \/ \E child \in reading : Record(child)
  \/ \E h \in Hosts : Reboot(h) \/ ReapBoot(h)
  \/ \E h \in Hosts, p \in Pids : Exit(h, p) \/ \E image \in Images : Stranger(h, p, image)
  \/ Shutdown \/ Stop \/ Serve
  \/ \E record \in toReap : Leave(record) \/ Clear(record) \/ Reap(record) \/ Spare(record)

ReapSpec == ReapInit /\ [][ReapNext]_reapVars

\* The lines of pids.ndjson, and what a process is.
ProcessLines ==
  [id : Pids, exited : BOOLEAN, hostname : Hosts, boot : Nat, osCreatedAt : Nat]
Processes == [birth : Nat, image : Images, life : Nat, deaf : BOOLEAN]

ReapTypeOK ==
  /\ proc \in [Hosts -> [Pids -> Processes]] /\ births \in Nat
  /\ reboots \in [Hosts -> Nat]
  /\ at \in Hosts /\ phase \in {"down", "reaping", "serving", "muted"} /\ life \in Nat \ {0}
  /\ ledger \in [lines : Seq(ProcessLines), torn : BOOLEAN]
  /\ reading \subseteq [pid : Pids, birth : Nat]
  /\ doomed \subseteq Pids /\ toReap \subseteq ProcessLines
  /\ recorded \subseteq Nat /\ writtenOff \subseteq Nat /\ strangers \subseteq Nat
  /\ raced \in BOOLEAN

\* I19: boot kills no process the server did not spawn, however often pids were
\* reused, machines rebooted or the root moved, unless a pid changed hands
\* within one of two windows: from the spawn to the reading of its creation
\* time, and from the guard to the kill (core:508, core:1800).
StrangersSpared == strangers # {} => raced

\* I50 and D23: once a server serves on a host, no child of an earlier life
\* whose record landed runs there, be it that another server booted elsewhere
\* in between.  Beyond it are those a shutdown's tombstone wrote off alive, being
\* deaf or holding the same pid on another host, and those whose pid a later
\* child was recorded under (core:630, fs-ledger.ts:24).
RecordedAgain(p, birth) ==
  \E i \in DOMAIN ledger.lines :
    /\ ledger.lines[i].id = p /\ ~ledger.lines[i].exited
    /\ \E j \in 1..(i - 1) : ledger.lines[j].id = p /\ ledger.lines[j].osCreatedAt = birth
OrphansReaped ==
  phase = "serving" =>
    \A p \in Pids :
      LET orphan == proc[at][p]
      IN orphan.life \in 1..(life - 1) /\ orphan.birth \in recorded \ writtenOff
         => RecordedAgain(p, orphan.birth)

\* design/20-contract.md:2380: after one signal the children are "Killed and
\* tombstoned"; none is left running once the server is down.
ShutdownKills == phase = "down" =>
    \A p \in Pids : proc[at][p].life = life => proc[at][p].birth \notin writtenOff
====
