# Verification of the NBD80S10S-KL ground station

This directory holds TLA+ specifications of the FPV ground station in this
repository, TLC configurations that check them on small instances, and proofs
that TLAPS checks for every instance. Paths are relative to the repository;
`overlay/` abbreviates `buildroot-ext/board/ssr621q/rootfs-overlay/`.

## 1. The system

A recorder SoC receives video from a drone ("air unit"), either over wfb-ng
(monitor mode, `wfb_rx` re-emits RTP on a local UDP port) or from the air unit's
access point over RTSP (apfpv), and puts it on HDMI. Long-running processes:

| component | source | state | operations |
|---|---|---|---|
| player | `src/mi-player.c` main | MI pipeline, `running`, RTSP session, frame buffer | open RTSP, build pipeline, read/decode loop, keepalive, TEARDOWN, unwind |
| RTP reassembly | `src/mi-player.c:471-616` | `frame`, `last_seq`, `lost_packets` | append the pieces of a packet, hand the frame over at the marker |
| replay window | `src/mi-player.c:618-681, 1331-1380` | `fbuf`, `fpos`, the file's position | top up, find the end of the access unit, feed it |
| DVR recorder | `src/mi-player.c:48-199` | ring `rec_head/rec_tail`, flags, writer thread, file | `rec_start`, `rec_push`, `rec_stop`, `rec_writer` |
| supervisor | `overlay/usr/bin/fpv-start:78-95` | `/tmp/fpv.pid`, `/tmp/fpv.url`, child player | restart the player 3 s after it ends |
| player scripts | `fpv-start`, `fpv-stop`, `display-up` | pid and URL files, the OSD, who holds `/dev/mi_hdmi` | start, stop, restore the display |
| link loop | `wfb-start:139-182` | `down`, `last` | every 2 s: player up when decrypting, down after 5 misses |
| replay | `dvr-play` | `/tmp/fpv.hold` | hold the loop off, stop the live player, play, clean up |
| status writer | awk in `wfb-start:54-73` | `/tmp/wfb.status` | truncate and rewrite once a second |
| adaptive link | `src/alink-gs.c` | `last_mtime`, `had_link`, IDR code | score the link 4 times a second, ask for keyframes |
| apfpv station | `bin/apfpv`, `apfpv-action.sh`, `apfpv.script` | wpa/DHCP events, udhcpc's pid file | fpv-start on a lease, fpv-stop on disassociation |
| settings, upgrade | `S05cfg`, `sysupgrade`, `verify-sig.c` | system and cfg partitions, `/etc/wfb.conf` | mount or format cfg, copy the defaults; check and write an image |
| radio | `src/wifi-monitor.c`, the heads of `wfb-start` and `apfpv` | interface flags, mode and channel; the table of channels seen | monitor mode for `wfb_rx`, managed for `wpa_supplicant`, sniffing by hand |
| display | `src/mi-disp-init.c` | DISP, the HDMI transmitter, `/dev/mi_hdmi` | bring it up, hold the device open |
| overlays | `src/fb-splash.c` | framebuffer, one process per overlay | splash, link strip, timer, statistics |
| VDEC shim | `src/mi-player.c:262-370` | `vdec_shift` | renumber or swallow the library's ioctls |
| boot | `load-mi`, `load-wifi`, `S60mi`, `S65display`, `S70link` | the script that runs | one after another; `S65display` polls for HDMI, `S70link` chooses the link |

They interact through files in `/tmp`, through the process table (`kill`,
`killall`, `pidof`), UDP/TCP sockets, and - inside the player - a mutex, a
condition variable and a signal flag. No script takes a lock. What is hard:

* **threads**: the writer calls `write()` outside the lock while the loop pushes;
  `rec_stop` joins and frees.
* **scripts**: check-then-act on pid files by several processes; `killall` by
  name in the window between fork and exec; waits that give up after 15 s; a trap
  that runs its cleanup twice.
* **signals**: `SIGTERM` between a test and the blocking read behind it; `SIGPIPE`.
* **peers**: an air unit that reboots, refuses, or acknowledges and never answers.
* **files**: status rewritten in place (truncate, then write) under a reader
  that takes time and text separately.
* **network**: RTP packets lost or reordered, a lost marker joining two pictures.
* **persistence**: a recording cut off anywhere and replayed; power loss during an
  upgrade, a format or the first-boot copy; edits the kernel has not written back.
* **drivers**: every ioctl may be refused; some failures are fatal, some only printed,
  and the caller sees one exit status; `MI_HDMI_Start` may never return.
* **the screen**: several processes draw in place on one framebuffer over the video.

Correctness, per component: damage to a picture ends with it, and what was recorded
is replayed picture by picture; the recording is an uncorrupted stream and never
costs the picture; at most one supervisor and one player; a replay owns the
screen, and the hold goes; the link state ends up on the screen; one keyframe
request per loss, silence on a dead link; the session is kept alive, a kill
ends the player, a reboot of the air unit is recovered from, the pipeline is
unwound in an order the driver can stand; nothing is erased for an image that was not
checked, and settings survive reboots and upgrades; a receiver never runs on an
interface that is not in its mode; an overlay shows one reading and stays off the
picture; the board comes up whatever the display does.

## 2. The modules

| module | what it is |
|---|---|
| `StreamLog` | abstract specification: a lossy log. Frames are appended whole or dropped whole, a prefix is stored, closing stores the rest or gives up |
| `Recorder` | the recorder in detail, with the decode loop's use of it |
| `RecorderProofs` | its theorems |
| `FpvScripts` | fpv-start, fpv-stop, display-up, the supervisor and its player, for any process that runs them |
| `WfbGround` | composes `FpvScripts` with the link loop and dvr-play |
| `ApfpvScripts` | what apfpv leaves to wpa_cli and udhcpc, over `FpvScripts` |
| `Station` | composes the two: the station over either link, with dvr-play |
| `StationProofs` | its theorems |
| `AlinkSender` | alink-gs and the file awk rewrites under it |
| `AlinkSenderProofs` | its theorems |
| `VdecShim` | the player's ioctl(), as operators over the library's and the drivers' tables |
| `PlayerSession` | a player's life: RTSP, pipeline (through `VdecShim`), loop, signals, end, restart |
| `PlayerSessionProofs` | its theorems |
| `AccessUnits` | Annex-B streams and `au_end`, as operators |
| `RtpAssembly` | the live half of the player's loop: network, `rtp_feed`, depacketisers, hand-over |
| `VideoPath` | composes it with a recording of what it fed and the replay of that recording |
| `VideoPathProofs` | its theorems |
| `VerifySig` | the exit status of verify-sig, as an operator |
| `Flash` | what outlives the power: sysupgrade, S05cfg, the two partitions, power cuts |
| `FlashProofs` | its theorems |
| `Radio` | the adapter, wifi-monitor and who runs it |
| `Display` | mi-disp-init and the HDMI transmitter |
| `Overlay` | fb-splash: pixels at sample points, the drawing processes, the scripts that start and kill them |
| `Board` | composes `Flash`, `Radio`, `Display` and `Overlay` with the init scripts |
| `BoardProofs` | `Board` implements `Flash`; the radio's invariant; the types of radio, display and init |
| `OverlayProofs` | what is on the screen, for the whole board |
| `MC...` | the same modules for TLC, with the `.cfg` files |

An operator named `...Mutant` is a plausible slip of the code next to the
definition it would replace. Nothing uses it; it documents what the properties
are able to notice.

### Recorder

Variables have the names of the C statics. `mpc` and `wpc` are the program
counters of the main thread and the writer. A critical section is one action.
The unlocked `write()` is `WriteByte` (repeated), then `WriteReturns`,
`WriteFails` or `WriteHangs`, so that a push can fall between any two bytes. A byte
is `<<frame, offset>>`; `mem` is the ring, `Junk` memory never written. `log`
(accepted stream) and `stored` (the file) are history. `fed` bounds the number
of frames (`MaxFrames`). `rec_start`'s three failures all leave what there was
before and are one action. `pthread_cond_wait` may wake up without a signal
(`SpuriousWakeup`).

### FpvScripts, WfbGround, ApfpvScripts and Station

Every command of a script that touches a file, a process or the screen is a step
(`pc`), with two exceptions that the module's head names. `sup[s]` is the supervisor
with pid `s`, `player[s]` its child: *forked* (not yet exec'ed, so invisible to
`killall` and `pidof`), *runs*, *ends* (tearing MI down). `race` is a history
variable: the first unlucky interleaving of a run -

* `missed`: killall fell between a supervisor's fork and exec;
* `stuck`: a 15-second wait for the player was given up;
* `overlap`: a replay began while the loop was in the middle of a turn, or a script of
  wpa_cli or udhcpc while another was at work;
* `intruded`: one of those began during a replay;
* `interrupt`: Ctrl-C.

Safety properties are stated for runs without one (that is what the scripts are
able to promise), the liveness properties for all runs. The three violation runs
show what the link loop loses to each. Named bounds: `ReplayMayBegin` (no new replay after the first
such event), `DownLimit` (2 instead of 5; only whether the limit is reached matters),
pids that are reused only when no file or child has them (`FreePids`). "none" and
"nokey" are one status "down"; they differ in the wording of the splash.

With apfpv there is no loop: `Association` changes the status and tells wpa_cli, which runs
`apfpv-action.sh` for one event after the other (`pending`); CONNECTED replaces udhcpc,
whose script runs fpv-stop for deconfig and fpv-start for every lease and renewal. A
client that was sent SIGTERM inside its script ends with it (`ClientEnds`). None of these
scripts looks at `/tmp/fpv.hold`: a lease or a lost association during a replay puts the
live player beside it, or ends it. What `dvr-play:15` promises is about the link loop
("that loop restarts the live player"), so this is stated as a limit (`intruded`) rather
than as a disagreement. Likewise a DISCONNECTED while udhcpc is inside fpv-start
leaves a supervisor that nobody stops before the next loss of the link; what is
checked of such runs is that the hold goes and that the picture comes back with the
link. Bounds: `MaxPending` events behind the one that is running; `Calm`: after an unlucky
interleaving no association changes and no lease runs out, and (`Rests`) a renewal waits for
the scripts to be through; in behaviours with replays (`replays`) the
association comes once and is lost once, the latter during a replay (`flights`).

### AlinkSender

awk's `print > file` truncates on opening and writes on closing (`OpenStatus`,
`CloseStatus`); the sender's `stat()` and `fopen()/fgets()` are two steps
(`StatFinds...`, then `ReadFindsNoVideo` or `SendReport`). `stamp` is the mtime, of
which only equality matters; the truncation and the text may have the same or two.
`SenderKeepsUp` is the one timing assumption: with 250 ms against 1 s, at least one
whole poll lies within each reading. Of the message its score and its code are kept.
`Score` is computed in integers (`alink-gs.c` uses doubles and cuts off, which can give
one less at a point between two scores); a reading is what was measured and whether
packets were lost.

A poll that finds the file truncated clears `had_link`, so that the next reading gets a code
though nothing was lost and the video never stopped; the two reasons at
`alink-gs.c:225` do not cover that. `ReadFindsNoVideo` has it as the code does, and
`CodesPerReading` counts that code with the others.

### PlayerSession

`pc` names the request that is awaited or the stage of main. `up` is the set of MI
modules set up, `Build` and `Unwind` the orders of the code, `Needs` what the driver
requires. `tcp` is *open*, *stale* (the air unit no longer knows it), *broken* (a read
has failed; the next write raises SIGPIPE) or *mute* (the air unit acknowledged a
request and rebooted: nothing will ever be sent on it). A signal at a blocking call
either interrupts it or is missed by it (`missed`). Seconds are scaled: `KEEPALIVE = 2`
and `TIMEOUT = 5` stand for 25 and 60; the model needs only KEEPALIVE + 2 < TIMEOUT.
`MaxMishaps` bounds reboots, refusals and failed steps together.

`BuildCalls` and `UnwindCalls` name the ioctls of MI_VDEC each step of the build and of
the unwind makes; what a call does to the pipeline is what the driver's routine does that
it ends in, after `VdecShim` has renumbered it. `set` is the module set load-mi has
loaded, and with it the driver's table. `flawed` is history: a step of the build has
failed, and the player went on without it, as `mi-player.c` does for most of them.

### AccessUnits, RtpAssembly and VideoPath

A stream is a sequence of symbols that remember which picture, NAL unit and byte they
are; a start code is one symbol. The sender and the network are external: a picture of
`Shapes` leaves as single NAL units, aggregates or fragments in every combination, and
packets are lost or overtake one another. A packet is the pieces it carries, and the
receiver appends them one by one (`frame_append`, which leaves out what does not fit).
`unit` is what VDEC was fed last, with the packets it was made of; `gaps` counts the
packets that did not follow the one before by their true numbers, which the code, with
`n % SeqSpace`, cannot see.

What a recording holds is `Recorder`'s promise: accepted units in order, up to some
symbol. `StartReplay` begins with any such file. A turn of the replay loop is one
action, since everything it touches is its own: `Supply` is what its reads can find, `Read`
how much they do find before the window is full, the file ends for the second time, a
read fails or a signal comes. `junk` is the type that would be read from a payload byte
whose NAL header was lost.

`PicturesAreReplayed` is stated for pictures that `au_end` can tell apart: one slice, at
the end, and in H.265 no SEI first. Pictures of several slices are fed slice by slice, and
an H.265 prefix SEI goes with the picture before it, against the comment at
`mi-player.c:631` ("the split has to land on picture boundaries"). Likewise the comment at
`mi-player.c:493` ("drop tail") is not quite what happens: a smaller piece behind the one
that did not fit is still appended. Both are in the model as they are in the code.

### VerifySig and Flash

An image is its name, what its header says (magic, load address, length) and its real
length; a digest is the name of what it was taken of. A signature is its size, the image
it was made for and whether the key's owner made it; that nobody else can is
`KeyAssumption`. `flashcp` is two steps: `Erase`, after which the partition is *torn*, and
`Written` or `WriteFails`. `PowerCut` may fall between any two steps and takes what the
kernel had not written back (`WriteBack`, at any time; at the latest at an unmount).
U-Boot does not start a torn partition; somebody writes an image over TFTP (`Recover`).

`conf` is what a process reads as `/etc/wfb.conf`, `stored` what the flash holds, `saved`
what the flash owes its user: the last content written through a mounted filesystem,
except what a cut took or a format erased. `S05cfg` takes every failed first mount for
the first boot and formats; a copy of the defaults that was cut off stays as *partial*
for good, since only its absence is tested; `sysupgrade -c` unmounts, calls a
`flash_eraseall` that by `S05cfg:20-22` this image does not have, and erases nothing.
All three are in the model as the code has them. `wiped` is history: `-c` has been
through, and nothing has been written since. `EditsSurvive` says that the settings survive
everything else, and is silent while `wiped`, when they are meant to be gone
(`sysupgrade:17`: "kept unless -c is given"). That they are gone is `ResetErases`, and
the run `board_reset` shows that the code does not keep it; with a `Wipe` that erases, it holds.

### Radio, Display and Overlay

`Radio` has one action per ioctl of wifi-monitor, each of which may be refused
(`MaxRefusals`); `told` is what it printed an error of. Its demands on the driver - no
change of type while up, no channel while down - are external. `Exited` is the caller:
wfb-start goes on when the status was 0, apfpv in any case (`ApfpvGoesOn`): its
own `ifconfig up` may be refused too, which is said on the terminal and stops nothing. `sniff` lists the channels of
the W:B frames in a table; `heard` is what was on the air, and a frame is the lengths its
bounds check looks at, its marker and its channel.

`Display` is mi-disp-init call by call; only the first failure ends it, and a call may
never return (nothing is fair about it). Its seven MI_DISP calls, none of which is
looked at again, are one step.

`Overlay` keeps the screen at a few *sample points* of the real 1280 by 720 panel: inside and outside
the strip, the timer, the splash's text and bars, the rows above and below. Each drawing is
evaluated there with the code's geometry, clipping, glyph blending and packing of
channels, in both the ARGB4444 the image configures and the driver's ARGB1555. `put_pixel`
without its test would draw in the next row; a pixel's `Aliases` are those addresses. A
pixel also carries, as history, the reading it was drawn for (`by`). What a text says is
left out, not how long it is: lengths decide what a shorter text leaves behind. A glyph is
a constant function of coverage (`font.h` is generated). The processes redraw in the
order of the code - read, clear, first line, second line - one step each, so that kills
and a second process fall between them. `Killall` assumes that the processes a script
killed had been exec'ed by then; the window in which they have not is in `FpvScripts`.

### Board

`S05cfg`, `S65display` (`S65polls`, `S65splash`) and `S70link` run one after the other;
then an edit, `S70link restart`, an upgrade, a replay, reboots. `MemoryLost` is what a
reboot or a cut does to everything but the flash. `focus` is the one bound that shapes the
state space: a behaviour exercises one of the four parts, where things fail and
users act, while the other three boot and stand by; `Turn` lets display and painters wait
for the link where they are not the focus. So two parts that fail at the same time are
not covered by the run; what is proved (all of the board's invariants) holds for any `focus`
and whatever fails together.

## 3. The runs

| run | cfg | expectation | what it shows |
|---|---|---|---|
| recorder | `MCRecorder.cfg` | pass | ring of 3 bytes, 3 frames of up to 4 bytes (one of 4 never fits), with and without a limit: window, file, lifetime, drop counter; `ImplementsLog`; `rec_stop` returns, accepted bytes arrive, recording without a limit never holds the loop up |
| recorder_capped | `MCRecorder_capped.cfg` | violation | `rec_stop` in the decode loop waits for a stuck stick |
| station | `MCStation.cfg` | pass | over wfb-ng (one loop) and over apfpv (two udhcpc pids), with a replay and Ctrl-C: `StopFindsSupervisor`, `OnePlayer`, `HoldIsRespected`, `LivePictureShows`; the hold goes, a link that stays up plays, one that stays down ends in a splash |
| wfb_ground_two_loops | `MCWfbGround_two.cfg` | violation | two loops, two supervisors |
| wfb_ground_replay | `MCWfbGround_replay.cfg` | violation | hold seen too late |
| wfb_ground_ctrlc | `MCWfbGround_ctrlc.cfg` | violation | cleanup runs twice, splash over the live picture |
| alink_sender | `MCAlinkSender.cfg` | pass | every reading is reported with its score, and every loss in it asked for, once (twice at most when a poll straddles a rewriting); silence when reports end |
| player_session | `MCPlayerSession.cfg` | pass | unwind order, session kept, SIGTERM ends the player, the stream comes back after a reboot, under both drivers' tables |
| player_session_pipe | `MCPlayerSession_pipe.cfg` | violation | SIGPIPE ends the player with its pipeline up |
| video_path | `MCVideoPath.cfg` | pass | two pictures from four shapes, every packetisation, loss and reordering: an intact picture is fed whole whatever came before, losses are counted across the wrap; the recording, cut off anywhere, is replayed without gap or repetition, picture by picture, and the replay ends |
| board | `MCBoard.cfg` | pass | four parts over one boot: the partition holds a checked image or was cut while it was written, and no failed write is rebooted into; settings survive, `sysupgrade -c` excepted; no receiver on an interface that is not ready; an overlay shows one reading, packed without spilling, and leaves the picture alone; the link is started whatever mi-disp-init does |
| board_reset | `MCBoard_reset.cfg` | violation | after `sysupgrade -c` the old settings are still in the flash |

**Why the bounds are enough.** Ring: three slots and frames of one to four bytes give
every position of the wrap within a frame and within a chunk, a full ring, a frame that can never fit, and a push
during each byte of a write; three frames let the ring wrap more than once. Scripts: one
loop and one replay already interleave at every command, and two pids suffice because a
third supervisor is only ever started by a third script (the run with two loops has
three); `MaxPending` of 1 gives an association that is lost before its script has
run, and two udhcpc pids a new client beside one that has not yet gone. alink: three
rewritings cover a reading before, during and after the one a property is about. Video: the
frame buffer (7 symbols) overflows when a lost marker joins two pictures; the window (8)
holds every picture and the next start code, but not every file; numbering starts at 14
of 16, so the sequence number wraps within the first picture or two; one trouble (a failed read
or a signal) can fall into any turn. Session: two mishaps allow a reboot during recovery from the first.
Board: one cut and one failure in each part fall between any two of its steps; the files given to
sysupgrade are one good one, and one of each kind that is wrong in one way only, so that
no check can stand in for another; frames of three streams overflow the channel table,
which has 2 entries for the code's 8; `PollLimit` is 1 for 15, since only whether it is
reached matters; at most one partition or verify-sig is missing. With the focus on the
flash a cut or an edit comes while `S05cfg` runs or when the board is at rest.

**Fairness.** Recorder: the two threads run (weak fairness of the main thread and of
the writer), a write() that has not hung makes progress; nobody has to signal, and a
stick may hang for ever. Scripts: each process is scheduled, a player that was told to
end does, a recording has an end; the radio, the pilot and a live player owe nothing; with
an air unit that stays on the air udhcpc gets its lease and renews it, and goes into the
background (strong fairness, since its scripts run in between). alink:
the sender polls and time passes. Session: main runs, its timed reads time out, an air
unit that is up answers and one that is gone comes back; nobody has to send video.
Video: the replaying player runs, and its reads return. Board: init runs its scripts and
a wifi-monitor that was started runs on, by its clock if no frame arrives; mi-disp-init
owes nothing, nor do users, the kernel's write-back or the painters. Deadlock checking is off only for
PlayerSession and VideoPath, where a player ends, and with it the behaviour, and for
Station: over apfpv nothing moves until an event comes (that scripts get stuck in the
middle would show in the liveness properties).

Three results deserve a word. `StreamComesBack` holds only *because* SIGPIPE kills a player
whose connection is dead: with MSG_NOSIGNAL and nothing else (the mutant) the player
waits for ever for the video of a session that is gone. And `LinkUpPlays` holds from
every interleaving the scripts can get into, the violation runs' included. `ShowsOneReading`
needs its exception: where a pixel is all or nothing (ARGB1555), a timer with more than its
twenty characters (a recording's name in front of the time, `fb-splash.c:544`) leaves specks of
the seconds before beyond the block it clears; with ARGB4444, which this image configures,
the label's background paints them over. The exception is about
every time that may be shown, and not about one that seems to be the longest: the hours have no
width (`%lu`), and a name of eleven characters that fits for the first ten hours does not after
them. That, and that the panel has to be as wide as what the timer clears (`PanelAssumption`), came
out of the proof; a smaller panel, for which `fb-splash.c:546-547` moves the timer to the edge, is not modelled.

## 4. What is proved

`RecorderProofs`, for every ring size, frame size, set of limits and number of frames:

* `RecorderInvariant`: `Spec => []IInv`. `IInv` strengthens the checked invariants by what
  ties the writer's locals to the ring: `off` is the tail's slot, the chunk `[off, off+n)`
  lies in the window and does not wrap, `stored` is the log up to `rec_tail + done`. Without
  that a push could not be shown to leave the chunk alone: the key step is that a slot
  of `[tail, head)` and the slot of a byte at `head` or beyond, less than `RingSize` from the
  tail, differ (`ModUnique`, `SlotDistance`).
* `RecorderTypeOK`, `WindowIsIntact`, `RecordingIsPrefix`, `RingOutlivesWriter`: the checked
  invariants of the same names' properties.
* `EveryDropIsCounted` (`DropsAreCounted`). `Counting` adds to `IInv` that the frames of which the
  log holds a byte, those counted as dropped and the one in the loop's hands are the frames
  fed so far; since the log holds whole frames only, one push adds one to one of the two.
* `RecorderImplementsLog`: the recorder implements `StreamLog`, step by step.

`AlinkSenderProofs`, for every `STALE_SEC`, number of messages per code, set of signals and
number of rewritings:

* `ScoreInRange`: the score is within its limits for any integers the radio may report.
* `SenderTypeOK`, `SenderReports` (`ReadingIsReported`), `SenderAsksOnce` (`CodesPerReading`).
  The checked invariants are not inductive: they need to know that mtimes only grow and a
  file that is open for writing is newer than any report (`ReadingsAreApart`), that a poll
  which began within a reading holds its time (`WholePolls`), and that a poll with an older
  time comes before any with the right one, once, and only if it straddled the writing
  (`OldPolls`).

`StationProofs`, for one link loop and one replay at a time (`OneOfEach`), any number of
pids, DHCP clients and recordings played, and any bound `MaxPending` on the events that wait; the
limits `Calm` and `flights` of `Station` on when associations change (section 2) are part of
the specification, and so of what is proved: `StationTypes`, `StopFinds` (`StopFindsSupervisor`),
`PipelineHasOneOwner` (`OnePlayer`), `HoldKeepsOthersOff` (`HoldIsRespected`), `NothingOverPicture`
(`LivePictureShows`). The scripts share no lock; the invariant is that of a lock nobody
holds. As long as `race = "none"`, at most one script is between its first command and its last
(`Single`), and the label it is at tells what it has done: no live supervisor behind the kill
(`NoSup`), no pid file between `rm` and `echo` (`NoPidFile`), no player behind the wait
(`NoPlayer`), a free screen before the fork (`Cleared`). `ViewerInv` tells why the loop does not
come in while a recording plays: the hold was there before its last turn began. With two loops none of
this is so, which is what the run `wfb_ground_two_loops` shows; hence `OneOfEach`.

`PlayerSessionProofs`, for every KEEPALIVE and TIMEOUT with KEEPALIVE + 2 < TIMEOUT, both module
sets and any number of mishaps:

* `UnwindIsSafe` (`NothingLosesItsFooting`): first that each VDEC call ends in the routine it is
  named for once `vdec_shift_init` has chosen the shift (`Reached`, a finite table), then that
  the steps of the build that are `up` are among those the unwind has still before it
  (`Footing`), and that it meets each after all that need it (`UnwindOrder`).
* `KeepaliveKeepsSession` (`SessionIsKept`): `Session` bounds, per place where main waits, how long ago
  the air unit can last have heard from it (`Connected`).
* `SessionTypes`.

`VideoPathProofs`, for all streams, packet sizes, losses, reorderings, frame buffers and windows:

* `IntactPicturesAreFed` (`IntactPictureIsFed`). There is a content for every packet number, fixed
  when the packet is sent; a picture is what the numbers from its first to its marker carry, and
  what is in `frame` or was fed is what the numbers it was made of carry, as far as it fits.
  So a unit made of exactly a picture's numbers is that picture.
* `EveryLossIsCounted` (`LossesAreCounted`) under `[]WithinReach`: no packet in flight is
  a whole turn of `SeqSpace` or more from the one expected. The condition is necessary: behind
  65536 packets lost in a row the code cannot see the gap. Every state of the run satisfies it.
* `ReplaysAreContiguous`, `ReplaysEndWhenFed` (`EndsWhenFed`): the window and what is left of the
  file are always the file from the next symbol to be fed on, and the file is rewound only
  when nothing is left.
* `PicturesComeAgain` (`PicturesAreReplayed`): a start code in a picture is followed by the headers
  of its NAL units in their order (`Marked`), so `au_end` stops at the first start code of the
  next picture and at none before.
* `VideoTypes`.

A packetisation is any way to cut what is left of a picture, and a picture is put together by
`FlattenSeq` and `FoldLeft`. What those compute is proved by least counterexample: the set of
lengths for which a statement fails has a least member (`NatLessThanWellFounded`), and there it
is refuted by unfolding the function once. This needs no induction theorem with an operator
as its parameter.

`FlashProofs`, for any files, sizes, settings and numbers of cuts and failures:

* `FlashHolds` (`FlashHoldsCheckedImage`). The inductive invariant adds that a file in
  sysupgrade's hands has no signature of the key's owner over an image he did not sign,
  kept by the extraction of an archive, and that the partition is whole between flashcp
  and the reboot. `ShapeIsEnough` and `OriginIsEnough` connect the checks with the promise.
* `SettingsSurvive` (`EditsSurvive`, so not of `-c`), with where S05cfg is tied to whether the partition is
  mounted.
* `FTypeStep`: its types, one lemma per group of variables, used by the board.

`BoardProofs`:

* `BoardImplementsFlash`: every step of the board is a step of `Flash` or leaves its
  variables alone, so `Spec => FSpec`; `BoardHoldsCheckedImage` and `BoardKeepsSettings` follow.
* `BoardRadioAsAsked` (`RadioAsAsked`), from the invariants `LinkInv` (what holds of the
  interface at each point of wifi-monitor, and what was reported refused, and that nobody uses it meanwhile) and `TableInv`
  (no channel twice; all that were heard while the table lasts). Its hypothesis `FramesAreTrue` says
  that the constant `Frames` calls *on the air* what a whole frame with the marker is; the
  frames of `MCBoard` satisfy it.

`OverlayProofs`, for the whole board, every panel, format, text and number of readings:

* `BoardShowsOneReading` (`ShowsOneReading`) and `BoardLeavesThePicture` (`PictureUncovered`). A drawing is
  described by the rectangle it stays in and by the reading it is of (`Over`): texts, blocks
  and bars each stay within theirs, and what `put_pixel` is asked for beyond the panel's edge
  reaches no other point (`Aliases`). The invariant says of a painter what it holds at each of
  its steps (`Holding`), of the screen which reading is on it and where (`Reading`), and of a
  picture who may paint over it (`Picture`); `BootInv` that nothing is drawn before
  `S65display` has run. The delicate steps are those between clearing and second line, where the
  screen must be of the reading in the painter's hands, and those by which a script kills one
  painter and starts another over what is left.
* `BoardTypeOK` (`TypeOK`): no channel of a pixel, drawn or blended, spills into its neighbour, in
  any format, with the types of the flash, the radio (`RadioTypeInv`), the display and init.

Their hypothesis `GlyphsAreNibbles` says of the constant `Coverage` what `font.h` stores: a nibble of
glyph and a nibble of outline for each point. `MCBoard`'s satisfies it.

The assumptions are those the modules name: positive sizes, limits that are naturals or
"none" (`Recorder`); naturals and integers (`AlinkSender`, `Radio`, `Display`, `Board`); a factory image that
boots, and a key that only its owner signs with (`Flash`); periods three seconds apart
(`PlayerSession`); pictures of at least one NAL unit and positive sizes (`RtpAssembly`, `VideoPath`);
one loop, one viewer, and scripts that are not each other (`Station`); a panel on which the timer fits and readings that fit
their strip, as this one's do with room for 14 more characters (`Overlay`). The proofs have one lemma per
group of actions, or per conjunct, and one step per action within it.

Every invariant and action property of the passing runs is the statement of a theorem. Only
model-checked is liveness (`StopReturns`, `AcceptedIsStored`, `RecordingNeverStallsDecode`,
`HoldIsReleased`, `LinkUpPlays`, `LinkDownEndsInSplash`, `DeadLinkFallsSilent`, `KillEndsPlayer`,
`StreamComesBack`, `ReplayEnds`, `BoardComesUp`): it rests on fairness, and so on ENABLED, which the
prover does not handle.

## 5. What is not modelled, and the plan

In order:

1. wfb-stop and the order of the start of the tunnel processes. What survives
   `S70link restart` is more than the second link loop of `MCWfbGround_two.cfg`: an alink-gs
   that has been forked and not written down, wpa_supplicant (`Board` has it, in
   `S70restart`), an apfpv script still waiting for its association.
2. Proofs: the safety half of the liveness properties (that the recorder's threads, or the scripts,
   never reach a state in which all of them wait on one another), and an abstract
   specification of the station - one owner of the screen at a time - that `Station` implements
   while no script is caught in the middle.

Left out of modules that exist: the kernel's `disp=`, `link=` and `apfpv=` arguments; ssh host keys beside
wfb.conf; the `-esflag` byte and the ioctl trace; the parsing of SDP and URLs (success or failure);
malformed RTP headers; the wording of everything. `/tmp/wifi-status` is read by
fb-splash one key at a time while apfpv rewrites it; `Overlay` has the file whole or
empty, and a statistics block made of two of its versions would count there as one reading.
A `rec_stop` on a stuck stick would also delay the end of a
player; `PlayerSession` leaves the recorder out and `Recorder` has that wait. Early returns
of main after the pipeline is up are modelled (`OpenInputFails`); they leave the
pipeline to the driver's own cleanup, as the SIGPIPE run shows for a more frequent cause.

Not planned: load-mi, load-wifi and S60mi (one straight line of insmod), dvr-file and dvr-mount (one ls and
one test of a mount point), command line tools that only print, vendored cryptography
and the generated font, the build.
