--------------------------- MODULE StatusMessage ---------------------------
(***************************************************************************)
(* The Slack status message (status/status.go, status/slack.go,            *)
(* store/status.go): one message, posted once and then edited after every  *)
(* sync and backup, found again after restarts, and posted anew when it    *)
(* cannot be edited, but at most once per repostEvery.                     *)
(*                                                                         *)
(* Slack is the environment: people delete the message, move or rename the *)
(* channel, edits close, requests fail with or without effect.  Every such *)
(* disturbance, and every crash, counts against MaxFaults, so that the     *)
(* model also has the behaviours after the last one.                       *)
(***************************************************************************)
EXTENDS Integers

CONSTANTS
    Channels,   \* channel ids
    None,       \* no channel
    RepostEvery,\* repostEvery, in the units of the clock
    MaxFaults   \* bound: disturbances

ASSUME StatusAssumption ==
    /\ None \notin Channels
    /\ RepostEvery \in Nat \ {0}
    /\ MaxFaults \in Nat

VARIABLES
    named,   \* Slack: the channel SLACK_STATUS_CHANNEL names now
    alive,   \* Slack: the channels that exist
    msgs,    \* Slack: the status messages that exist
    disk,    \* the status_message row: where the message is, the last attempt
    mem,     \* the updater: loaded, its cached channel, its copy of the row
    run,     \* where the updater's run is, and whether its context has ended
    faults,  \* bound: disturbances so far
    lastPost \* history: how long ago Slack last created a message

vars == <<named, alive, msgs, disk, mem, run, faults, lastPost>>

(* An attempt is its age; RepostEvery stands for older ones and for none.  *)
Expired == RepostEvery
NoRow   == [ts |-> 0, chan |-> None, attempt |-> Expired]
Fresh   == [loaded |-> FALSE, channel |-> None, ts |-> 0, chan |-> None,
            attempt |-> Expired]

(* Bound: ids Slack may give a message; 0 is none.  They never run out, as *)
(* every new message but the first follows a disturbance.                  *)
Stamps == 0 .. MaxFaults + 3

At(pc) == run.pc = pc
Go(pc) == run' = [pc |-> pc, late |-> IF pc \in {"idle", "down"} THEN FALSE ELSE run.late]

Disturb == faults < MaxFaults /\ faults' = faults + 1

(* A call under the run's context: it fails once that has ended.           *)
CallWorks == ~ run.late /\ UNCHANGED faults
CallFails == IF run.late THEN UNCHANGED faults ELSE Disturb

Editable(ts, chan) ==
    chan \in alive /\ \E m \in msgs : m.ts = ts /\ m.chan = chan /\ m.open

-----------------------------------------------------------------------------
(* What a run does next, from what the updater holds.                      *)

Capped(m) == m.attempt < RepostEvery

(* post: a new message, unless capped; then a message left in another      *)
(* channel is edited.                                                      *)
ToPost(m) == CASE ~ Capped(m)                            -> "attempt"
               [] Capped(m) /\ m.ts # 0 /\ m.chan # m.channel -> "editOld"
               [] OTHER                                  -> "idle"

(* send: edit the message if there is one in the right channel.            *)
ToSend(m) == CASE m.channel = None                   -> "find"
               [] m.channel # None /\ m.ts # 0 /\ m.chan = m.channel -> "edit"
               [] OTHER                              -> ToPost(m)

-----------------------------------------------------------------------------
(* Runs *)

(* serve starts; SLACK_STATUS_CHANNEL may name another channel since.      *)
Boot ==
    /\ At("down")
    /\ mem' = Fresh
    /\ Go("idle")
    /\ \/ UNCHANGED <<named, faults>>
       \/ named' \in alive \ {named} /\ Disturb
    /\ UNCHANGED <<alive, msgs, disk, lastPost>>

(* SyncDone, BackupDone *)
Begin ==
    /\ At("idle")
    /\ Go(IF mem.loaded THEN ToSend(mem) ELSE "load")
    /\ UNCHANGED <<named, alive, msgs, disk, mem, faults, lastPost>>

Load_anyway ==
    /\ At("load")
    /\ \/ CallWorks /\ mem' = [loaded |-> TRUE, channel |-> mem.channel, ts |-> disk.ts,
                               chan |-> disk.chan, attempt |-> disk.attempt]
       \/ CallFails /\ mem' = [mem EXCEPT !.loaded = TRUE]
    /\ Go(ToSend(mem'))
    /\ UNCHANGED <<named, alive, msgs, disk, lastPost>>

(* load, then update: nothing is sent until the row and the sync state have*)
(* been read; the row alone may be.                                        *)
Load ==
    /\ At("load")
    /\ LET row == [mem EXCEPT !.ts = disk.ts, !.chan = disk.chan, !.attempt = disk.attempt]
       IN \/ /\ CallWorks
             /\ mem' = [row EXCEPT !.loaded = TRUE]
             /\ Go(ToSend(mem'))
          \/ CallFails /\ mem' \in {mem, row} /\ Go("idle")
    /\ UNCHANGED <<named, alive, msgs, disk, lastPost>>

Find ==
    /\ At("find")
    /\ \/ CallWorks /\ mem' = [mem EXCEPT !.channel = named] /\ Go(ToSend(mem'))
       \/ CallFails /\ mem' = mem /\ Go("idle")
    /\ UNCHANGED <<named, alive, msgs, disk, lastPost>>

Edit_keepsChannel ==
    /\ At("edit")
    /\ \/ CallWorks /\ Editable(mem.ts, mem.chan) /\ mem' = mem /\ Go("idle")
       \/ CallWorks /\ ~ Editable(mem.ts, mem.chan) /\ mem' = mem /\ Go(ToPost(mem))
       \/ CallFails /\ mem' = mem /\ Go("idle")
    /\ UNCHANGED <<named, alive, msgs, disk, lastPost>>

(* chat.update: done, or impossible for good (the message is gone or       *)
(* closed, the channel is gone), or failed for now.                        *)
Edit ==
    /\ At("edit")
    /\ \/ CallWorks /\ Editable(mem.ts, mem.chan) /\ mem' = mem /\ Go("idle")
       \/ /\ CallWorks /\ ~ Editable(mem.ts, mem.chan) /\ mem.chan \in alive
          /\ mem' = mem
          /\ Go(ToPost(mem))
       \/ /\ CallWorks /\ mem.chan \notin alive
          /\ mem' = [mem EXCEPT !.channel = None]
          /\ Go("refind")
       \/ CallFails /\ mem' = mem /\ Go("idle")
    /\ UNCHANGED <<named, alive, msgs, disk, lastPost>>

(* After channel_not_found: look it up, then a new message.                *)
Refind ==
    /\ At("refind")
    /\ \/ CallWorks /\ mem' = [mem EXCEPT !.channel = named] /\ Go(ToPost(mem'))
       \/ CallFails /\ mem' = mem /\ Go("idle")
    /\ UNCHANGED <<named, alive, msgs, disk, lastPost>>

EditOld ==
    /\ At("editOld")
    /\ CallWorks \/ CallFails
    /\ Go("idle")
    /\ UNCHANGED <<named, alive, msgs, disk, mem, lastPost>>

StoreAttempt ==
    /\ At("attempt")
    /\ \/ /\ CallWorks
          /\ disk' = [disk EXCEPT !.attempt = 0]
          /\ mem' = [mem EXCEPT !.attempt = 0]
          /\ Go("post")
       \/ CallFails /\ UNCHANGED <<disk, mem>> /\ Go("idle")
    /\ UNCHANGED <<named, alive, msgs, lastPost>>

(* A ts nobody knows: not that of a message, nor one finbot remembers.     *)
Known  == {m.ts : m \in msgs} \cup {0, disk.ts, mem.ts}
NextTS == CHOOSE n \in Stamps : n \notin Known

Created ==
    /\ mem.channel \in alive
    /\ \E n \in Stamps : n \notin Known
    /\ msgs' = msgs \cup {[ts |-> NextTS, chan |-> mem.channel, open |-> TRUE]}
    /\ lastPost' = 0

(* chat.postMessage: answered; of unknown outcome, with or without the     *)
(* message; or provably refused (ok:false or a 4xx).                       *)
Post_clearsOnAnyError ==
    /\ At("post")
    /\ \/ /\ CallWorks /\ Created
          /\ mem' = [mem EXCEPT !.ts = NextTS, !.chan = mem.channel]
          /\ Go("save")
       \/ /\ CallFails \/ CallWorks
          /\ mem' = [mem EXCEPT !.attempt = Expired] /\ Go("giveBack")
          /\ Created \/ UNCHANGED <<msgs, lastPost>>
    /\ UNCHANGED <<named, alive, disk>>

Post ==
    /\ At("post")
    /\ \/ /\ CallWorks /\ Created
          /\ mem' = [mem EXCEPT !.ts = NextTS, !.chan = mem.channel]
          /\ Go("save")
       \/ CallFails /\ Created /\ mem' = mem /\ Go("idle")
       \/ CallFails /\ mem' = mem /\ Go("idle") /\ UNCHANGED <<msgs, lastPost>>
       \/ /\ IF mem.channel \in alive THEN Disturb ELSE CallWorks
          /\ mem' = [mem EXCEPT !.attempt = Expired]
          /\ Go("giveBack")
          /\ UNCHANGED <<msgs, lastPost>>
    /\ UNCHANGED <<named, alive, disk>>

(* The two writes that outlive the run's context.                          *)
GiveBack ==
    /\ At("giveBack")
    /\ \/ UNCHANGED faults /\ disk' = [disk EXCEPT !.attempt = Expired]
       \/ Disturb /\ disk' = disk
    /\ Go("idle")
    /\ UNCHANGED <<named, alive, msgs, mem, lastPost>>

Save ==
    /\ At("save")
    /\ \/ UNCHANGED faults /\ disk' = [disk EXCEPT !.ts = mem.ts, !.chan = mem.chan]
       \/ Disturb /\ disk' = disk
    /\ Go("idle")
    /\ UNCHANGED <<named, alive, msgs, mem, lastPost>>

RunStep == Load \/ Find \/ Edit \/ Refind \/ EditOld \/ StoreAttempt \/ Post
           \/ GiveBack \/ Save

-----------------------------------------------------------------------------
(* The environment *)

(* RunTimeout, or shutdown.                                                *)
ContextEnds ==
    /\ run.pc \notin {"idle", "down"} /\ ~ run.late
    /\ Disturb
    /\ run' = [run EXCEPT !.late = TRUE]
    /\ UNCHANGED <<named, alive, msgs, disk, mem, lastPost>>

Crash ==
    /\ ~ At("down")
    /\ Disturb
    /\ mem' = Fresh
    /\ Go("down")
    /\ UNCHANGED <<named, alive, msgs, disk, lastPost>>

DeleteMessage ==
    /\ Disturb
    /\ \E m \in msgs : msgs' = msgs \ {m}
    /\ UNCHANGED <<named, alive, disk, mem, run, lastPost>>

CloseEdits ==
    /\ Disturb
    /\ \E m \in msgs : m.open /\ msgs' = (msgs \ {m}) \cup {[m EXCEPT !.open = FALSE]}
    /\ UNCHANGED <<named, alive, disk, mem, run, lastPost>>

(* The channel goes, and another one gets its name.                        *)
ChannelMoves ==
    /\ Disturb
    /\ alive' = alive \ {named}
    /\ named' \in alive'
    /\ UNCHANGED <<msgs, disk, mem, run, lastPost>>

(* A run takes a fraction of the unit, so time passes between runs.        *)
TimePasses ==
    /\ run.pc \in {"idle", "down"}
    /\ LET Older(age) == IF age < RepostEvery THEN age + 1 ELSE age IN
         /\ disk' = [disk EXCEPT !.attempt = Older(@)]
         /\ mem' = [mem EXCEPT !.attempt = Older(@)]
         /\ lastPost' = Older(lastPost)
    /\ UNCHANGED <<named, alive, msgs, run, faults>>

-----------------------------------------------------------------------------
Init ==
    /\ named \in Channels
    /\ alive = Channels
    /\ msgs = {}
    /\ disk = NoRow
    /\ mem = Fresh
    /\ run = [pc |-> "down", late |-> FALSE]
    /\ faults = 0
    /\ lastPost = Expired

Next ==
    \/ Boot \/ Begin \/ RunStep
    \/ ContextEnds \/ Crash
    \/ DeleteMessage \/ CloseEdits \/ ChannelMoves
    \/ TimePasses

(* The scheduler keeps reporting, calls return, and ticks are far apart.   *)
Fairness ==
    /\ WF_vars(Boot) /\ WF_vars(RunStep)
    /\ SF_vars(Begin) /\ SF_vars(TimePasses)

Spec == Init /\ [][Next]_vars /\ Fairness

-----------------------------------------------------------------------------
(* Properties *)

TypeOK ==
    /\ named \in alive /\ alive \subseteq Channels
    /\ msgs \subseteq [ts : Stamps \ {0}, chan : Channels, open : BOOLEAN]
    /\ disk \in [ts : Stamps, chan : Channels \cup {None}, attempt : 0 .. RepostEvery]
    /\ mem \in [loaded : BOOLEAN, channel : Channels \cup {None}, ts : Stamps,
                chan : Channels \cup {None}, attempt : 0 .. RepostEvery]
    /\ run \in [pc : {"down", "idle", "load", "find", "edit", "refind", "editOld",
                      "attempt", "post", "giveBack", "save"}, late : BOOLEAN]
    /\ faults \in 0 .. MaxFaults
    /\ lastPost \in 0 .. RepostEvery
    /\ mem.loaded \/ run.pc \in {"down", "idle", "load"}

(* "post posts a new message, at most once per repostEvery ... neither a   *)
(* lost response nor a restart can lift the cap": Slack never creates two  *)
(* messages within repostEvery.                                            *)
AtMostOnePostPerWindow ==
    [][(\E m \in msgs' : \A n \in msgs : n.ts # m.ts) => lastPost >= RepostEvery]_vars

(* load "retries on the next run rather than post a second message": no    *)
(* new message while the one on disk can be edited in the right channel,   *)
(* unless the updater has since made another that it could not store.      *)
NoNeedlessMessage ==
    [][(\E m \in msgs' : \A n \in msgs : n.ts # m.ts) =>
          ~ (/\ disk.chan = named /\ Editable(disk.ts, disk.chan)
             /\ mem.ts \in {0, disk.ts})]_vars

Settled == mem.channel = named /\ mem.chan = named /\ Editable(mem.ts, mem.chan)

(* The cached channel is gone, and no message in it that an edit would find*)
(* gone too: only a failed edit makes the updater look the channel up.     *)
Stranded == mem.channel \notin alive \cup {None} /\ mem.chan # mem.channel

(* Whatever happened, the updater ends with one message that it keeps      *)
(* editing, in the right channel, unless it is stranded.                   *)
SettlesOnOneMessage == <>[]Settled \/ <>[]Stranded

(* "keeps one Slack message current" (package status), in every case.      *)
AlwaysSettles == <>[]Settled

-----------------------------------------------------------------------------
(* Why they hold: no attempt that counts is older than Slack's last post,  *)
(* and whoever is about to post found that post a window old.              *)

Posting == run.pc \in {"attempt", "post"}

WindowInv ==
    /\ disk.attempt <= lastPost
    /\ mem.loaded => mem.attempt <= lastPost
    /\ Posting \/ At("giveBack") => lastPost = RepostEvery
    /\ At("post") => disk.attempt = 0 /\ mem.attempt = 0

(* The updater forgets a message only as the row does, a channel it cached *)
(* is the named one or gone, and a post had nothing to edit.               *)
NeedInv ==
    /\ mem.channel \in alive => mem.channel = named
    /\ mem.loaded => /\ mem.ts = 0 => disk.ts = 0
                     /\ mem.ts = disk.ts => mem.chan = disk.chan
    /\ At("refind") => mem.chan \notin alive
    /\ Posting => \/ mem.ts = 0 \/ mem.chan # mem.channel
                  \/ ~ Editable(mem.ts, mem.chan)
=============================================================================
