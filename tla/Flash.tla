-------------------------------- MODULE Flash ---------------------------------
(***************************************************************************)
(* What outlives the power: the system partition, which sysupgrade         *)
(* rewrites, and the cfg partition, which S05cfg mounts at /mnt/cfg and    *)
(* where /etc/wfb.conf lives.                                              *)
(*                                                                         *)
(* A settings file is the name of its content.  `conf' is what a process   *)
(* that opens /etc/wfb.conf reads, `stored' what the flash holds; the      *)
(* kernel writes back when it likes, at the latest when the filesystem is  *)
(* unmounted.  The power may be cut between any two steps.                 *)
(***************************************************************************)
EXTENDS VerifySig

CONSTANTS
    Sources,        \* what sysupgrade may be given
    Genuine,        \* the images the key's owner has signed
    Factory,        \* the image the board left the factory with
    Settings,       \* what a user may write into wfb.conf
    PSize,          \* the system partition, in units
    Header,         \* the uImage header, in the same units
    MaxCuts,        \* bound: power cuts
    MaxMishaps      \* bound: mounts, erasures and flash writes that fail

\* An uImage for this board, whole and not larger than its partition.
Boots(img) ==
    /\ img.magic /\ img.load
    /\ img.len = img.dsize + Header /\ img.len <= PSize

Contents == {"absent", "partial", "default"} \cup Settings

ASSUME FactoryAssumption == Boots(Factory) /\ Factory.id \in Genuine
ASSUME BoundAssumption == MaxCuts \in Nat /\ MaxMishaps \in Nat

\* Nobody else makes a signature that the compiled-in key accepts.
ASSUME KeyAssumption ==
    \A s \in Sources : \A sig \in {s.sig, s.inner} :
        sig.ours => sig.of \in Genuine

VARIABLES
    board,          \* partitions on the kernel command line; /usr/sbin/verify-sig
    stage,          \* "off", "cfg" while S05cfg starts, "up"
    system,         \* the system partition: an image, and whether it is torn
    fs, stored,     \* the cfg partition: is it a filesystem, its wfb.conf
    mounted, conf,
    spc,            \* where S05cfg is
    upc, opt, src,  \* sysupgrade: where it is, its options, its file
    saved,          \* history: the settings the flash owes us
    wiped,          \* history: nothing has been written since sysupgrade -c
    forced,         \* history: -k installed an image nobody vouched for
    hurt,           \* history: the last write of the system was cut or failed
    cuts, mishaps

flashVars   == <<system, fs, stored>>
cfgVars     == <<mounted, conf, spc>>
upgradeVars == <<upc, opt, src>>
history     == <<saved, wiped, forced, hurt>>
fvars == <<board, stage, flashVars, cfgVars, upgradeVars, history, cuts, mishaps>>

NoSource == [zip |-> FALSE, img |-> Factory, sig |-> NoSig, inner |-> NoSig]
NoOption == [n |-> FALSE, c |-> FALSE, k |-> FALSE]

FInit ==
    /\ board \in [system : BOOLEAN, cfg : BOOLEAN, verifier : BOOLEAN]
    /\ stage = "off"
    /\ system = [img |-> Factory, torn |-> FALSE]
    /\ fs = FALSE /\ stored = "absent"
    /\ mounted = FALSE /\ conf = "absent" /\ spc = "idle"
    /\ upc = "idle" /\ opt = NoOption /\ src = NoSource
    /\ saved = "absent" /\ wiped = FALSE /\ forced = FALSE /\ hurt = FALSE
    /\ cuts = 0 /\ mishaps = 0

----------------------------------------------------------------------------
(* The power and U-Boot *)

PowerOn ==
    /\ stage = "off" /\ ~system.torn
    /\ stage' = "cfg" /\ spc' = "mount"
    /\ UNCHANGED <<board, flashVars, mounted, conf, upgradeVars, history, cuts, mishaps>>

\* U-Boot has no kernel to start: an image is written over TFTP.
Recover ==
    /\ stage = "off" /\ system.torn
    /\ system' = [img |-> Factory, torn |-> FALSE]
    /\ hurt' = FALSE
    /\ UNCHANGED <<board, stage, fs, stored, cfgVars, upgradeVars, saved, wiped, forced,
                   cuts, mishaps>>

\* Memory is gone, with what had not been written back.
Halt ==
    /\ stage' = "off"
    /\ mounted' = FALSE /\ conf' = "absent" /\ spc' = "idle"
    /\ upc' = "idle" /\ opt' = NoOption /\ src' = NoSource

PowerCut ==
    /\ stage # "off" /\ cuts < MaxCuts
    /\ Halt
    /\ cuts' = cuts + 1
    /\ saved' = stored
    /\ hurt' = (hurt \/ upc = "writing")
    /\ UNCHANGED <<board, flashVars, wiped, forced, mishaps>>

\* S05cfg stop, umount: what reboot(2) would not have done.
UnmountedMutant == stored
Unmounted == IF mounted THEN conf ELSE stored

\* reboot: by hand, or by sysupgrade when it has finished.
Reboot ==
    /\ stage = "up" /\ upc \in {"idle", "reboot"}
    /\ stored' = Unmounted
    /\ Halt
    /\ UNCHANGED <<board, system, fs, history, cuts, mishaps>>

----------------------------------------------------------------------------
(* S05cfg start *)

Mishap == mishaps < MaxMishaps /\ mishaps' = mishaps + 1
NoMishap == UNCHANGED mishaps

\* mount: /mnt/cfg/wfb.conf is what the flash holds.
Mount ==
    /\ stage = "cfg" /\ spc \in {"mount", "mount again"}
    /\ board.cfg /\ fs
    /\ mounted' = TRUE /\ conf' = stored
    /\ spc' = "look"
    /\ NoMishap
    /\ UNCHANGED <<board, stage, flashVars, upgradeVars, history, cuts>>

\* The first mount fails, because nothing was ever formatted or for another
\* reason: flash_erase -j, which erases whatever was there.
StartFormat ==
    /\ stage = "cfg" /\ spc = "mount" /\ board.cfg
    /\ \/ ~fs /\ NoMishap
       \/ fs /\ Mishap
    /\ spc' = "format"
    /\ fs' = FALSE /\ stored' = "absent" /\ saved' = "absent" /\ wiped' = FALSE
    /\ UNCHANGED <<board, stage, system, mounted, conf, upgradeVars, forced, hurt, cuts>>

Formatted ==
    /\ spc = "format"
    /\ spc' = "mount again"
    /\ \/ fs' = TRUE /\ NoMishap
       \/ fs' = fs /\ Mishap
    /\ UNCHANGED <<board, stage, system, stored, mounted, conf, upgradeVars, history, cuts>>

\* No cfg partition, or it would not mount twice: /etc/wfb.conf is the
\* default, in memory.
Fallback ==
    /\ stage = "cfg"
    /\ \/ spc = "mount" /\ ~board.cfg /\ NoMishap
       \/ spc = "mount again" /\ ~fs /\ NoMishap
       \/ spc = "mount again" /\ fs /\ Mishap
    /\ conf' = "default"
    /\ spc' = "idle" /\ stage' = "up"
    /\ UNCHANGED <<board, flashVars, mounted, upgradeVars, history, cuts>>

\* cp wfb.conf.default, of which a power cut may leave a part.
CopyDefault ==
    /\ spc = "look" /\ conf = "absent"
    /\ conf' = "partial" /\ saved' = "partial" /\ wiped' = FALSE
    /\ spc' = "copy"
    /\ UNCHANGED <<board, stage, flashVars, mounted, upgradeVars, forced, hurt, cuts, mishaps>>

DefaultCopied ==
    /\ spc = "copy"
    /\ conf' = "default" /\ saved' = "default"
    /\ spc' = "idle" /\ stage' = "up"
    /\ UNCHANGED <<board, flashVars, mounted, upgradeVars, wiped, forced, hurt, cuts, mishaps>>

KeepSettings ==
    /\ spc = "look" /\ conf # "absent"
    /\ spc' = "idle" /\ stage' = "up"
    /\ UNCHANGED <<board, flashVars, mounted, conf, upgradeVars, history, cuts, mishaps>>

----------------------------------------------------------------------------
(* The kernel's write-back, and a user at an editor *)

WriteBack ==
    /\ mounted /\ stored # conf
    /\ stored' = conf
    /\ UNCHANGED <<board, stage, system, fs, cfgVars, upgradeVars, history, cuts, mishaps>>

\* Where nothing is mounted the edit lands in memory, and nothing is owed.
Edit ==
    /\ stage = "up"
    /\ conf' \in Settings \ {conf}
    /\ saved' = IF mounted THEN conf' ELSE saved
    /\ wiped' = (wiped /\ ~mounted)
    /\ UNCHANGED <<board, stage, flashVars, mounted, spc, upgradeVars, forced, hurt,
                   cuts, mishaps>>

----------------------------------------------------------------------------
(* sysupgrade *)

Start ==
    /\ stage = "up" /\ upc = "idle"
    /\ board.system
    /\ opt' \in [n : BOOLEAN, c : BOOLEAN, k : BOOLEAN]
    /\ src' \in Sources
    /\ upc' = "have"
    /\ UNCHANGED <<board, stage, flashVars, cfgVars, history, cuts, mishaps>>

GivenUp == upc' = "idle" /\ opt' = NoOption /\ src' = NoSource

\* Not enough memory, a download that fails, an archive unzip refuses or
\* one without an image: exit 1.
GiveUp ==
    /\ upc = "have"
    /\ GivenUp
    /\ UNCHANGED <<board, stage, flashVars, cfgVars, history, cuts, mishaps>>

\* An archive: the image in it, and the signature in it where it has one.
Extract ==
    /\ upc = "have" /\ src.zip /\ src.img.magic
    /\ src' = [zip |-> FALSE, img |-> src.img, inner |-> src.inner,
               sig |-> IF src.inner # NoSig THEN src.inner ELSE src.sig]
    /\ UNCHANGED <<board, stage, flashVars, cfgVars, upc, opt, history, cuts, mishaps>>

\* The checks on its shape: magic, load address, length, room.
ShapeOK(img) ==
    /\ img.magic
    /\ img.load
    /\ img.len = img.dsize + Header
    /\ img.len <= PSize

\* The check on its origin.
OriginOK ==
    \/ opt.k
    \/ board.verifier /\ src.sig # NoSig /\ Status(src.img.id, src.sig) = 0

Refuse ==
    /\ upc = "have" /\ ~src.zip
    /\ ~ShapeOK(src.img) \/ ~OriginOK
    /\ GivenUp
    /\ UNCHANGED <<board, stage, flashVars, cfgVars, history, cuts, mishaps>>

\* flashcp: erase, write, verify.
Erase ==
    /\ upc = "have" /\ ~src.zip
    /\ ShapeOK(src.img) /\ OriginOK
    /\ system' = [img |-> src.img, torn |-> TRUE]
    /\ forced' = (forced \/ opt.k)
    /\ upc' = "writing"
    /\ UNCHANGED <<board, stage, fs, stored, cfgVars, opt, src, saved, wiped, hurt, cuts, mishaps>>

Written ==
    /\ upc = "writing"
    /\ system' = [img |-> system.img, torn |-> FALSE]
    /\ hurt' = FALSE
    /\ upc' = "written"
    /\ UNCHANGED <<board, stage, fs, stored, cfgVars, opt, src, saved, wiped, forced,
                   cuts, mishaps>>

\* `WRITE FAILED -- do not reboot': exit 1, and it does not.
AfterFailureMutant == "written"
AfterFailure == "idle"

WriteFails ==
    /\ upc = "writing" /\ Mishap
    /\ hurt' = TRUE
    /\ upc' = AfterFailure
    /\ opt' = IF upc' = "idle" THEN NoOption ELSE opt
    /\ src' = NoSource
    /\ UNCHANGED <<board, stage, flashVars, cfgVars, saved, wiped, forced, cuts>>

\* -c: umount /mnt/cfg, then a flash_eraseall that this image does not
\* have: nothing is erased, and nothing is said of it.
Wipe ==
    /\ upc = "written" /\ opt.c
    /\ IF board.cfg
       THEN /\ stored' = Unmounted
            /\ conf' = IF mounted THEN "absent" ELSE conf
            /\ mounted' = FALSE
            /\ wiped' = TRUE
       ELSE UNCHANGED <<stored, conf, mounted, wiped>>
    /\ opt' = [n |-> opt.n, c |-> FALSE, k |-> opt.k]
    /\ UNCHANGED <<board, stage, system, fs, spc, upc, src, saved, forced, hurt,
                   cuts, mishaps>>

Finish ==
    /\ upc = "written" /\ ~opt.c
    /\ upc' = IF opt.n THEN "idle" ELSE "reboot"
    /\ opt' = NoOption /\ src' = NoSource
    /\ UNCHANGED <<board, stage, flashVars, cfgVars, history, cuts, mishaps>>

----------------------------------------------------------------------------
BootSteps == Mount \/ StartFormat \/ Formatted \/ Fallback \/ CopyDefault
             \/ DefaultCopied \/ KeepSettings
UpgradeSteps == GiveUp \/ Extract \/ Refuse \/ Erase \/ Written \/ WriteFails
                \/ Wipe \/ Finish

FNext == PowerOn \/ Recover \/ PowerCut \/ Reboot \/ BootSteps \/ WriteBack \/ Edit
         \/ Start \/ UpgradeSteps
FSpec == FInit /\ [][FNext]_fvars

----------------------------------------------------------------------------
(* Properties *)

Images == {Factory} \cup {s.img : s \in Sources}
FTypeOK ==
    /\ board \in [system : BOOLEAN, cfg : BOOLEAN, verifier : BOOLEAN]
    /\ stage \in {"off", "cfg", "up"}
    /\ system \in [img : Images, torn : BOOLEAN]
    /\ fs \in BOOLEAN /\ {stored, conf, saved} \subseteq Contents
    /\ mounted \in BOOLEAN
    /\ spc \in {"idle", "mount", "format", "mount again", "look", "copy"}
    /\ upc \in {"idle", "have", "writing", "written", "reboot"}
    /\ opt \in [n : BOOLEAN, c : BOOLEAN, k : BOOLEAN] /\ src.img \in Images
    /\ {wiped, forced, hurt} \subseteq BOOLEAN
    /\ cuts \in 0 .. MaxCuts /\ mishaps \in 0 .. MaxMishaps

\* The system partition holds an image this board can boot, one that the
\* key's owner signed unless somebody once said -k; the exception is the
\* minute flashcp takes, and what a power cut or a failure then leaves
\* behind (sysupgrade checks before it erases).  And sysupgrade never
\* reboots into what it failed to write.
FlashHoldsCheckedImage ==
    /\ Boots(system.img)
    /\ system.img.id \in Genuine \/ forced
    /\ system.torn => upc = "writing" \/ hurt
    /\ upc = "reboot" => ~system.torn

\* `Settings here survive reboot and reflash' (S05cfg): while the partition
\* is mounted processes read the last settings written to it, and while it
\* is not the flash holds them, through clean reboots, upgrades and first
\* boots.  After -c nothing is owed until settings are written again.  A
\* power cut takes only what the kernel had not written back; a first mount
\* that fails erases them (S05cfg).
EditsSurvive ==
    /\ mounted /\ ~wiped => conf = saved
    /\ ~mounted /\ ~wiped => stored = saved

\* `-c  also erase /mnt/cfg (factory reset)' (sysupgrade:15): from then on,
\* and until new ones are written, no settings of a user are in the flash,
\* on that boot or the next.  The code does not keep this.
ResetErases == wiped => stored \notin Settings
==============================================================================
