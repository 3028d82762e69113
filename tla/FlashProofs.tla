----------------------------- MODULE FlashProofs ------------------------------
(***************************************************************************)
(* What Flash promises holds for every set of files sysupgrade may be      *)
(* given, every partition size and any number of power cuts and failures.  *)
(***************************************************************************)
EXTENDS Flash, TLAPS

\* A file sysupgrade holds carries no signature of the key's owner over an
\* image he did not sign.
SignaturesMean ==
    \A sig \in {src.sig, src.inner} : sig.ours => sig.of \in Genuine

\* After flashcp, and until the reboot, the partition is whole.
WrittenIsWhole == upc \in {"written", "reboot"} => ~system.torn

HoldsInv == FlashHoldsCheckedImage /\ SignaturesMean /\ WrittenIsWhole

\* S05cfg looks and copies in a mounted filesystem, and mounts before.
Where ==
    /\ mounted \in BOOLEAN
    /\ spc \in {"look", "copy"} => mounted
    /\ spc \in {"mount", "format", "mount again"} => ~mounted
    /\ stage = "off" => ~mounted
    /\ spc # "idle" => stage = "cfg" /\ upc = "idle"
    /\ stage # "up" => upc = "idle"

SettingsInv == EditsSurvive /\ Where

----------------------------------------------------------------------------
(* The checks before the erasure *)

\* An image that passes the checks on its shape is one the board can boot.
LEMMA ShapeIsEnough ==
    ASSUME NEW img, ShapeOK(img) PROVE Boots(img)
BY DEF ShapeOK, Boots

\* Without -k only an image the key's owner signed passes the last check.
LEMMA OriginIsEnough ==
    ASSUME SignaturesMean, OriginOK, ~opt.k PROVE src.img.id \in Genuine
<1>1. Status(src.img.id, src.sig) = 0 BY DEF OriginOK
<1>2. crypto_sign_open(src.sig, src.img.id) BY <1>1 DEF Status
<1>3. src.sig.ours /\ src.sig.of = src.img.id BY <1>2 DEF crypto_sign_open
<1>. QED BY <1>3 DEF SignaturesMean

----------------------------------------------------------------------------
(* The system partition *)

LEMMA HoldsInit == FInit => HoldsInv
BY FactoryAssumption DEF FInit, HoldsInv, FlashHoldsCheckedImage, SignaturesMean,
   WrittenIsWhole, NoSource, NoSig

\* The steps that leave the partition, sysupgrade and what was forced alone.
LEMMA HoldsKept ==
    ASSUME HoldsInv, UNCHANGED <<system, upc, src, forced, hurt>>
    PROVE  HoldsInv'
BY DEF HoldsInv, FlashHoldsCheckedImage, SignaturesMean, WrittenIsWhole, Boots

LEMMA HoldsStep == HoldsInv /\ [FNext]_fvars => HoldsInv'
<1>. SUFFICES ASSUME HoldsInv, [FNext]_fvars PROVE HoldsInv'
  OBVIOUS
<1>. USE DEF HoldsInv, FlashHoldsCheckedImage, SignaturesMean, WrittenIsWhole, Boots
<1>1. CASE PowerOn
  BY <1>1, HoldsKept DEF PowerOn, flashVars, upgradeVars, history
<1>2. CASE Recover
  BY <1>2, FactoryAssumption DEF Recover, upgradeVars
<1>3. CASE PowerCut
  <2>1. UNCHANGED <<system, forced>> /\ upc' = "idle" /\ src' = NoSource
    BY <1>3 DEF PowerCut, Halt, flashVars
  <2>2. system.torn => hurt'
    BY <1>3 DEF PowerCut
  <2>. QED BY <2>1, <2>2 DEF NoSource, NoSig
<1>4. CASE Reboot
  BY <1>4 DEF Reboot, Halt, history, NoSource, NoSig
<1>5. CASE BootSteps
  BY <1>5, HoldsKept DEF BootSteps, Mount, StartFormat, Formatted, Fallback,
     CopyDefault, DefaultCopied, KeepSettings, flashVars, upgradeVars, history
<1>6. CASE WriteBack \/ Edit
  BY <1>6, HoldsKept DEF WriteBack, Edit, flashVars, upgradeVars, history
<1>7. CASE Start
  <2>1. src' \in Sources /\ UNCHANGED <<system, forced, hurt>> /\ upc' = "have" /\ upc = "idle"
    BY <1>7 DEF Start, flashVars, history
  <2>2. SignaturesMean'
    BY <2>1, KeyAssumption
  <2>. QED BY <2>1, <2>2
<1>8. CASE GiveUp \/ Refuse
  BY <1>8 DEF GiveUp, Refuse, GivenUp, flashVars, history, NoSource, NoSig
<1>9. CASE Extract
  BY <1>9 DEF Extract, flashVars, history
<1>10. CASE Erase
  <2>1. Boots(src.img)
    BY <1>10, ShapeIsEnough DEF Erase
  <2>2. src.img.id \in Genuine \/ forced'
    BY <1>10, OriginIsEnough DEF Erase
  <2>. QED BY <1>10, <2>1, <2>2 DEF Erase
<1>11. CASE Written
  BY <1>11 DEF Written
<1>12. CASE WriteFails
  BY <1>12 DEF WriteFails, AfterFailure, flashVars, NoSource, NoSig
<1>13. CASE Wipe
  BY <1>13, HoldsKept DEF Wipe, history
<1>14. CASE Finish
  BY <1>14 DEF Finish, flashVars, history, NoSource, NoSig
<1>15. CASE UNCHANGED fvars
  BY <1>15, HoldsKept DEF fvars, flashVars, upgradeVars, history
<1>. QED
  BY <1>1, <1>2, <1>3, <1>4, <1>5, <1>6, <1>7, <1>8, <1>9, <1>10, <1>11, <1>12,
     <1>13, <1>14, <1>15 DEF FNext, UpgradeSteps

\* Whatever sysupgrade is given and whenever the power goes, the system
\* partition holds an image that was checked, or is being written, or was
\* hurt by the power or the flash; and sysupgrade reboots into whole images.
THEOREM FlashHolds == FSpec => []FlashHoldsCheckedImage
<1>1. HoldsInv => FlashHoldsCheckedImage BY DEF HoldsInv
<1>. QED BY HoldsInit, HoldsStep, <1>1, PTL DEF FSpec

----------------------------------------------------------------------------
(* The settings *)

LEMMA SettingsInit == FInit => SettingsInv
BY DEF FInit, SettingsInv, EditsSurvive, Where

LEMMA SettingsStep == SettingsInv /\ [FNext]_fvars => SettingsInv'
<1>. SUFFICES ASSUME SettingsInv, [FNext]_fvars PROVE SettingsInv'
  OBVIOUS
<1>. USE DEF SettingsInv, EditsSurvive, Where
<1>1. CASE PowerOn
  BY <1>1 DEF PowerOn, flashVars, upgradeVars, history
<1>2. CASE Recover
  BY <1>2 DEF Recover, cfgVars, upgradeVars
<1>3. CASE PowerCut
  BY <1>3 DEF PowerCut, Halt, flashVars
<1>4. CASE Reboot
  BY <1>4 DEF Reboot, Halt, Unmounted, history
<1>5. CASE Mount
  BY <1>5 DEF Mount, flashVars, upgradeVars, history
<1>6. CASE StartFormat
  BY <1>6 DEF StartFormat, upgradeVars
<1>7. CASE Formatted
  BY <1>7 DEF Formatted, upgradeVars, history
<1>8. CASE Fallback
  BY <1>8 DEF Fallback, flashVars, upgradeVars, history
<1>9. CASE CopyDefault
  BY <1>9 DEF CopyDefault, flashVars, upgradeVars
<1>10. CASE DefaultCopied
  BY <1>10 DEF DefaultCopied, flashVars, upgradeVars
<1>11. CASE KeepSettings
  BY <1>11 DEF KeepSettings, flashVars, upgradeVars, history
<1>12. CASE WriteBack
  BY <1>12 DEF WriteBack, cfgVars, upgradeVars, history
<1>13. CASE Edit
  BY <1>13 DEF Edit, flashVars, upgradeVars
<1>14. CASE Start
  BY <1>14 DEF Start, flashVars, cfgVars, history
<1>15. CASE GiveUp
  BY <1>15 DEF GiveUp, GivenUp, flashVars, cfgVars, history
<1>16. CASE Extract
  BY <1>16 DEF Extract, flashVars, cfgVars, history
<1>17. CASE Refuse
  BY <1>17 DEF Refuse, GivenUp, flashVars, cfgVars, history
<1>18. CASE Erase
  BY <1>18 DEF Erase, cfgVars
<1>19. CASE Written
  BY <1>19 DEF Written, cfgVars
<1>20. CASE WriteFails
  BY <1>20 DEF WriteFails, AfterFailure, flashVars, cfgVars
<1>21. CASE Wipe
  BY <1>21 DEF Wipe, Unmounted, history
<1>22. CASE Finish
  BY <1>22 DEF Finish, flashVars, cfgVars, history
<1>23. CASE UNCHANGED fvars
  BY <1>23 DEF fvars, flashVars, cfgVars, upgradeVars, history
<1>. QED
  BY <1>1, <1>2, <1>3, <1>4, <1>5, <1>6, <1>7, <1>8, <1>9, <1>10, <1>11, <1>12,
     <1>13, <1>14, <1>15, <1>16, <1>17, <1>18, <1>19, <1>20, <1>21, <1>22, <1>23
     DEF FNext, BootSteps, UpgradeSteps

\* Through boots, reboots, upgrades and power cuts the settings are where
\* S05cfg says they are, as long as sysupgrade was not told to erase them.
THEOREM SettingsSurvive == FSpec => []EditsSurvive
<1>1. SettingsInv => EditsSurvive BY DEF SettingsInv
<1>. QED BY SettingsInit, SettingsStep, <1>1, PTL DEF FSpec

----------------------------------------------------------------------------
(* Types *)

\* FTypeOK, in parts.
SpcType == spc \in {"idle", "mount", "format", "mount again", "look", "copy"}
CountType == cuts \in 0 .. MaxCuts /\ mishaps \in 0 .. MaxMishaps
\* The image in the partition and the command being carried out, each a
\* record; what is left are names and flags.
SystemType == system \in [img : Images, torn : BOOLEAN]
CommandType == opt \in [n : BOOLEAN, c : BOOLEAN, k : BOOLEAN] /\ src.img \in Images
BoardType == board \in [system : BOOLEAN, cfg : BOOLEAN, verifier : BOOLEAN]
DataType ==
    /\ stage \in {"off", "cfg", "up"}
    /\ fs \in BOOLEAN /\ {stored, conf, saved} \subseteq Contents
    /\ mounted \in BOOLEAN
    /\ upc \in {"idle", "have", "writing", "written", "reboot"}
    /\ {wiped, forced, hurt} \subseteq BOOLEAN

LEMMA FTypeParts ==
    FTypeOK <=> SpcType /\ CountType /\ SystemType /\ CommandType /\ BoardType /\ DataType
BY DEF FTypeOK, SpcType, CountType, SystemType, CommandType, BoardType, DataType

LEMMA FTypeInit == FInit => FTypeOK
<1>. SUFFICES ASSUME FInit
              PROVE  SpcType /\ CountType /\ SystemType /\ CommandType /\ BoardType /\ DataType
  BY FTypeParts
<1>1. SpcType
  BY DEF FInit, SpcType
<1>2. CountType
  BY BoundAssumption DEF FInit, CountType
<1>3. SystemType /\ BoardType
  BY DEF FInit, SystemType, BoardType, Images
<1>4. CommandType
  BY DEF FInit, CommandType, NoOption, NoSource, Images
<1>5. DataType
  BY DEF FInit, DataType, Contents
<1>. QED BY <1>1, <1>2, <1>3, <1>4, <1>5

LEMMA SpcStep == SpcType /\ [FNext]_fvars => SpcType'
BY DEF SpcType, FNext, BootSteps, UpgradeSteps, PowerOn, Recover, PowerCut, Halt, Reboot,
   Mount, StartFormat, Formatted, Fallback, CopyDefault, DefaultCopied, KeepSettings,
   WriteBack, Edit, Start, GiveUp, Extract, Refuse, Erase, Written, WriteFails, Wipe, Finish,
   fvars, cfgVars

LEMMA CountStep == CountType /\ [FNext]_fvars => CountType'
<1>. SUFFICES ASSUME CountType, [FNext]_fvars PROVE CountType'
  OBVIOUS
<1>1. cuts' = cuts \/ (cuts < MaxCuts /\ cuts' = cuts + 1)
  BY DEF FNext, BootSteps, UpgradeSteps, PowerOn, Recover, PowerCut, Halt, Reboot,
     Mount, StartFormat, Formatted, Fallback, CopyDefault, DefaultCopied, KeepSettings,
     WriteBack, Edit, Start, GiveUp, Extract, Refuse, Erase, Written, WriteFails, Wipe, Finish,
     fvars
<1>2. mishaps' = mishaps \/ (mishaps < MaxMishaps /\ mishaps' = mishaps + 1)
  BY DEF FNext, BootSteps, UpgradeSteps, PowerOn, Recover, PowerCut, Halt, Reboot,
     Mount, StartFormat, Formatted, Fallback, CopyDefault, DefaultCopied, KeepSettings,
     WriteBack, Edit, Start, GiveUp, Extract, Refuse, Erase, Written, WriteFails, Wipe, Finish,
     fvars, Mishap, NoMishap
<1>. QED BY <1>1, <1>2, BoundAssumption DEF CountType

LEMMA SystemStep == SystemType /\ CommandType /\ [FNext]_fvars => SystemType'
<1>. SUFFICES ASSUME SystemType, CommandType, [FNext]_fvars PROVE SystemType'
  OBVIOUS
<1>1. \/ system' = system
      \/ system' = [img |-> Factory, torn |-> FALSE]
      \/ system' = [img |-> src.img, torn |-> TRUE]
      \/ system' = [img |-> system.img, torn |-> FALSE]
  BY DEF FNext, BootSteps, UpgradeSteps, PowerOn, Recover, PowerCut, Reboot,
     Mount, StartFormat, Formatted, Fallback, CopyDefault, DefaultCopied, KeepSettings,
     WriteBack, Edit, Start, GiveUp, Extract, Refuse, Erase, Written, WriteFails, Wipe, Finish,
     fvars, flashVars
<1>2. {Factory, src.img, system.img} \subseteq Images
  BY DEF SystemType, CommandType, Images
<1>3. CASE system' = system
  BY <1>3 DEF SystemType
<1>4. CASE system' = [img |-> Factory, torn |-> FALSE]
  BY <1>2, <1>4 DEF SystemType
<1>5. CASE system' = [img |-> src.img, torn |-> TRUE]
  BY <1>2, <1>5 DEF SystemType
<1>6. CASE system' = [img |-> system.img, torn |-> FALSE]
  BY <1>2, <1>6 DEF SystemType
<1>. QED BY <1>1, <1>3, <1>4, <1>5, <1>6

LEMMA CommandStep == CommandType /\ [FNext]_fvars => CommandType'
<1>. SUFFICES ASSUME CommandType, [FNext]_fvars PROVE CommandType'
  OBVIOUS
<1>1. /\ NoSource.img = Factory /\ Factory \in Images
      /\ \A s \in Sources : s.img \in Images
      /\ NoOption \in [n : BOOLEAN, c : BOOLEAN, k : BOOLEAN]
  BY DEF Images, NoSource, NoOption
<1>2. opt' \in [n : BOOLEAN, c : BOOLEAN, k : BOOLEAN]
  <2>1. \/ opt' \in {opt, NoOption}
        \/ opt' \in [n : BOOLEAN, c : BOOLEAN, k : BOOLEAN]
        \/ opt' = [n |-> opt.n, c |-> FALSE, k |-> opt.k]
    BY DEF FNext, BootSteps, UpgradeSteps, PowerOn, Recover, PowerCut, Halt, Reboot,
       Mount, StartFormat, Formatted, Fallback, CopyDefault, DefaultCopied, KeepSettings,
       WriteBack, Edit, Start, GiveUp, GivenUp, Extract, Refuse, Erase, Written, WriteFails,
       Wipe, Finish, fvars, upgradeVars
  <2>2. CASE opt' = [n |-> opt.n, c |-> FALSE, k |-> opt.k]
    BY <2>2 DEF CommandType
  <2>. QED BY <1>1, <2>1, <2>2 DEF CommandType
<1>3. src'.img \in Images
  <2>1. \/ src' \in {src, NoSource} \cup Sources
        \/ \E sig : src' = [zip |-> FALSE, img |-> src.img, inner |-> src.inner, sig |-> sig]
    BY DEF FNext, BootSteps, UpgradeSteps, PowerOn, Recover, PowerCut, Halt, Reboot,
       Mount, StartFormat, Formatted, Fallback, CopyDefault, DefaultCopied, KeepSettings,
       WriteBack, Edit, Start, GiveUp, GivenUp, Extract, Refuse, Erase, Written, WriteFails,
       Wipe, Finish, fvars, upgradeVars
  <2>2. CASE \E sig : src' = [zip |-> FALSE, img |-> src.img, inner |-> src.inner, sig |-> sig]
    <3>1. src'.img = src.img
      BY <2>2
    <3>. QED BY <3>1 DEF CommandType
  <2>. QED BY <1>1, <2>1, <2>2 DEF CommandType
<1>. QED BY <1>2, <1>3 DEF CommandType

LEMMA BoardStep == BoardType /\ [FNext]_fvars => BoardType'
<1>1. [FNext]_fvars => board' = board
  BY DEF FNext, BootSteps, UpgradeSteps, PowerOn, Recover, PowerCut, Reboot,
     Mount, StartFormat, Formatted, Fallback, CopyDefault, DefaultCopied, KeepSettings,
     WriteBack, Edit, Start, GiveUp, Extract, Refuse, Erase, Written, WriteFails, Wipe, Finish,
     fvars
<1>. QED BY <1>1 DEF BoardType

LEMMA DataStep == DataType /\ [FNext]_fvars => DataType'
<1>. SUFFICES ASSUME DataType, [FNext]_fvars PROVE DataType'
  OBVIOUS
<1>0. {"absent", "partial", "default"} \subseteq Contents /\ Settings \subseteq Contents
  BY DEF Contents
<1>. USE DEF DataType
<1>1. CASE PowerOn
  <2>1. stage' = "cfg" /\ UNCHANGED <<board, flashVars, mounted, conf, upgradeVars, history>>
    BY <1>1 DEF PowerOn
  <2>. QED BY <2>1 DEF flashVars, upgradeVars, history
<1>2. CASE Recover
  BY <1>2 DEF Recover, cfgVars, upgradeVars
<1>3. CASE PowerCut
  BY <1>0, <1>3 DEF PowerCut, Halt, flashVars
<1>4. CASE Reboot
  BY <1>0, <1>4 DEF Reboot, Halt, Unmounted, history
<1>5. CASE Mount
  <2>1. /\ mounted' = TRUE /\ conf' = stored
        /\ UNCHANGED <<board, stage, flashVars, upgradeVars, history>>
    BY <1>5 DEF Mount
  <2>. QED BY <2>1 DEF flashVars, upgradeVars, history
<1>6. CASE StartFormat
  BY <1>0, <1>6 DEF StartFormat, upgradeVars
<1>7. CASE Formatted
  <2>1. /\ fs' = TRUE \/ fs' = fs
        /\ UNCHANGED <<board, stage, system, stored, mounted, conf, upgradeVars, history>>
    BY <1>7 DEF Formatted
  <2>2. fs' \in BOOLEAN
    BY <2>1
  <2>3. UNCHANGED <<board, stage, system, stored, mounted, conf, upgradeVars, history>>
    BY <2>1
  <2>. QED BY <2>2, <2>3 DEF upgradeVars, history
<1>8. CASE Fallback
  <2>1. /\ conf' = "default" /\ stage' = "up"
        /\ UNCHANGED <<board, flashVars, mounted, upgradeVars, history>>
    BY <1>8 DEF Fallback
  <2>. QED BY <1>0, <2>1 DEF flashVars, upgradeVars, history
<1>9. CASE CopyDefault \/ DefaultCopied
  BY <1>0, <1>9 DEF CopyDefault, DefaultCopied, flashVars, upgradeVars
<1>10. CASE KeepSettings
  BY <1>10 DEF KeepSettings, flashVars, upgradeVars, history
<1>11. CASE WriteBack
  BY <1>11 DEF WriteBack, cfgVars, upgradeVars, history
<1>12. CASE Edit
  BY <1>0, <1>12 DEF Edit, flashVars, upgradeVars
<1>13. CASE Start
  BY <1>0, <1>13 DEF Start, flashVars, cfgVars, history
<1>14. CASE GiveUp \/ Refuse
  BY <1>0, <1>14 DEF GiveUp, Refuse, GivenUp, flashVars, cfgVars, history
<1>15. CASE Extract
  BY <1>15 DEF Extract, flashVars, cfgVars, history
<1>16. CASE Erase
  BY <1>16 DEF Erase, cfgVars
<1>17. CASE Written
  BY <1>17 DEF Written, cfgVars
<1>18. CASE WriteFails
  BY <1>0, <1>18 DEF WriteFails, AfterFailure, flashVars, cfgVars
<1>19. CASE Wipe
  BY <1>0, <1>19 DEF Wipe, Unmounted, history
<1>20. CASE Finish
  BY <1>0, <1>20 DEF Finish, flashVars, cfgVars, history
<1>21. CASE UNCHANGED fvars
  BY <1>21 DEF fvars, flashVars, cfgVars, upgradeVars, history
<1>. QED
  BY <1>1, <1>2, <1>3, <1>4, <1>5, <1>6, <1>7, <1>8, <1>9, <1>10, <1>11, <1>12, <1>13, <1>14,
     <1>15, <1>16, <1>17, <1>18, <1>19, <1>20, <1>21 DEF FNext, BootSteps, UpgradeSteps

LEMMA FTypeStep == FTypeOK /\ [FNext]_fvars => FTypeOK'
BY FTypeParts, SpcStep, CountStep, SystemStep, CommandStep, BoardStep, DataStep, PTL
==============================================================================
