--------------------------- MODULE NewMonitorProofs ----------------------------
(***************************************************************************)
(* What the picker of status codes guarantees, for every set of groups and *)
(* codes and however its user opens, closes, ticks and resets; and what    *)
(* the page around it guarantees, for any inputs, regions and submissions. *)
(***************************************************************************)
EXTENDS NewMonitor, SequenceTheorems, FiniteSetTheorems, TLAPS

--------------------------------------------------------------------------------
(* The selection stays a list of options without repetitions.              *)

\* An option it does not hold may follow.
LEMMA AppendSelection ==
  ASSUME NEW s \in Seq(Options), IsInjective(s), NEW v \in Options, v \notin Range(s)
  PROVE  Append(s, v) \in Seq(Options) /\ IsInjective(Append(s, v))
<1>1. /\ Append(s, v) \in Seq(Options)
      /\ Len(Append(s, v)) = Len(s) + 1
      /\ \A i \in 1..Len(s) : Append(s, v)[i] = s[i]
      /\ Append(s, v)[Len(s) + 1] = v
  BY AppendProperties
<1>2. \A i \in 1..Len(s) : s[i] # v
  BY DEF Range
<1>3. DOMAIN Append(s, v) = 1..(Len(s) + 1) /\ DOMAIN s = 1..Len(s)
  BY <1>1, LenProperties
<1>4. \A i \in 1..(Len(s) + 1) : i \in 1..Len(s) \/ i = Len(s) + 1
  BY LenProperties
<1>5. ASSUME NEW a \in 1..(Len(s) + 1), NEW b \in 1..(Len(s) + 1),
             Append(s, v)[a] = Append(s, v)[b]
      PROVE  a = b
  <2>1. CASE a \in 1..Len(s) /\ b \in 1..Len(s)
    BY <1>1, <1>3, <1>5, <2>1 DEF IsInjective
  <2>2. CASE a = Len(s) + 1 /\ b \in 1..Len(s)
    BY <1>1, <1>2, <1>5, <2>2
  <2>3. CASE b = Len(s) + 1 /\ a \in 1..Len(s)
    BY <1>1, <1>2, <1>5, <2>3
  <2> QED  BY <1>4, <2>1, <2>2, <2>3
<1> QED  BY <1>1, <1>3, <1>5 DEF IsInjective

\* So is its beginning.
LEMMA SubSelection ==
  ASSUME NEW s \in Seq(Options), IsInjective(s), NEW n \in 0..Len(s)
  PROVE  SubSeq(s, 1, n) \in Seq(Options) /\ IsInjective(SubSeq(s, 1, n))
<1>1. Len(s) \in Nat /\ DOMAIN s = 1..Len(s) /\ \A i \in 1..Len(s) : s[i] \in Options
  BY LenProperties, ElementOfSeq
<1>2. /\ SubSeq(s, 1, n) \in Seq(Options)
      /\ DOMAIN SubSeq(s, 1, n) = 1..n
      /\ \A i \in 1..n : SubSeq(s, 1, n)[i] = s[i]
  BY <1>1
<1> QED  BY <1>1, <1>2 DEF IsInjective

\* So is what is left when one option is removed.
LEMMA RemoveSelection ==
  ASSUME NEW s \in Seq(Options), IsInjective(s), NEW k \in DOMAIN s
  PROVE  /\ RemoveAt(s, k) \in Seq(Options)
         /\ IsInjective(RemoveAt(s, k))
<1> DEFINE A == SubSeq(s, 1, k - 1)
           B == SubSeq(s, k + 1, Len(s))
           r == A \o B
<1>1. Len(s) \in Nat /\ DOMAIN s = 1..Len(s) /\ \A i \in 1..Len(s) : s[i] \in Options
  BY LenProperties, ElementOfSeq
<1>2. k \in 1..Len(s) /\ k \in Nat
  BY <1>1
<1>3. A \in Seq(Options) /\ Len(A) = k - 1 /\ \A i \in 1..(k - 1) : A[i] = s[i]
  BY <1>1, <1>2
<1>4. /\ B \in Seq(Options)
      /\ Len(B) = Len(s) - k
      /\ \A i \in 1..(Len(s) - k) : B[i] = s[k + i]
  BY <1>1, <1>2
<1>5. RemoveAt(s, k) = r
  BY DEF RemoveAt
<1> HIDE DEF A, B
<1>6. /\ r \in Seq(Options)
      /\ Len(r) = Len(A) + Len(B)
      /\ \A i \in 1..(Len(A) + Len(B)) : r[i] = IF i <= Len(A) THEN A[i] ELSE B[i - Len(A)]
  BY <1>3, <1>4, ConcatProperties
<1>7. DOMAIN r = 1..Len(r)
  BY <1>6, LenProperties
<1> HIDE DEF r
<1>8. PICK n \in Nat : n = Len(s)
  BY <1>1
<1>9. Len(r) = n - 1
  BY <1>2, <1>3, <1>4, <1>6, <1>8
<1>10. ASSUME NEW i \in 1..(n - 1)
       PROVE  r[i] = s[IF i < k THEN i ELSE i + 1]
  <2>1. r[i] = IF i <= k - 1 THEN A[i] ELSE B[i - (k - 1)]
    BY <1>2, <1>3, <1>4, <1>6, <1>8
  <2>2. CASE i < k
    BY <1>2, <1>3, <2>1, <2>2
  <2>3. CASE ~(i < k)
    <3>1. i - (k - 1) \in 1..(n - k) /\ k + (i - (k - 1)) = i + 1 /\ ~(i <= k - 1)
      BY <1>2, <2>3
    <3>2. B[i - (k - 1)] = s[k + (i - (k - 1))]
      BY <1>4, <1>8, <3>1
    <3> QED  BY <2>1, <2>3, <3>1, <3>2
  <2> QED  BY <2>2, <2>3
<1>11. ASSUME NEW a \in 1..(n - 1), NEW b \in 1..(n - 1), r[a] = r[b]
       PROVE  a = b
  <2>1. s[IF a < k THEN a ELSE a + 1] = s[IF b < k THEN b ELSE b + 1]
    BY <1>10, <1>11
  <2>2. /\ (IF a < k THEN a ELSE a + 1) \in DOMAIN s
        /\ (IF b < k THEN b ELSE b + 1) \in DOMAIN s
    BY <1>1, <1>2, <1>8
  <2>3. (IF a < k THEN a ELSE a + 1) = (IF b < k THEN b ELSE b + 1)
    BY <2>1, <2>2 DEF IsInjective
  <2> QED  BY <1>2, <2>3
<1> QED  BY <1>5, <1>6, <1>7, <1>9, <1>11 DEF IsInjective

\* So is the empty list.
LEMMA EmptySelection == <<>> \in Seq(Options) /\ IsInjective(<<>>)
<1>1. <<>> \in Seq(Options) /\ Len(<<>>) = 0
  BY EmptySeq
<1>2. DOMAIN <<>> = 1..0
  BY <1>1, LenProperties
<1> QED  BY <1>1, <1>2 DEF IsInjective

\* And the selection of a picker that appears.
LEMMA MountSelection ==
  ASSUME NEW S \in SUBSET Options, IsFiniteSet(S), NEW s \in SetToSeqs(S)
  PROVE  s \in Seq(Options) /\ IsInjective(s)
<1>1. /\ s \in [1..Cardinality(S) -> S]
      /\ \A i, j \in 1..Cardinality(S) : i # j => s[i] # s[j]
  BY DEF SetToSeqs
<1>2. Cardinality(S) \in Nat
  BY FS_CardinalityType
<1>3. s \in Seq(Options)
  BY <1>1, <1>2
<1> QED  BY <1>1, <1>3 DEF IsInjective

(* A picker that appears shows all of its default.                         *)
LEMMA MountShows ==
  ASSUME NEW S \in SUBSET Options, IsFiniteSet(S), NEW s \in SetToSeqs(S)
  PROVE  Range(s) = S
<1>1. /\ s \in [1..Cardinality(S) -> S]
      /\ \A i, j \in 1..Cardinality(S) : i # j => s[i] # s[j]
  BY DEF SetToSeqs
<1>2. s \in Injection(1..Cardinality(S), S)
  BY <1>1 DEF Injection, IsInjective
<1>3. PICK n \in Nat : n = Cardinality(S)
  BY FS_CardinalityType
<1>4. Cardinality(1..n) = n
  BY FS_Interval
<1>5. s \in Surjection(1..Cardinality(S), S)
  BY <1>2, <1>3, <1>4, FS_Injection
<1> QED  BY <1>1, <1>5 DEF Surjection, Range

\* And what a click on an option makes of it.
LEMMA ToggleSelection ==
  ASSUME selectedValues \in Seq(Options), IsInjective(selectedValues),
         NEW v \in Options, toggleOption(v)
  PROVE  selectedValues' \in Seq(Options) /\ IsInjective(selectedValues')
<1>1. CASE v \notin Range(selectedValues) /\ selectedValues' = Append(selectedValues, v)
  BY <1>1, AppendSelection
<1>2. CASE \E i \in DOMAIN selectedValues : selectedValues' = RemoveAt(selectedValues, i)
  BY <1>2, RemoveSelection
<1> QED  BY <1>1, <1>2 DEF toggleOption

\* The length of a list without its last element.
LEMMA Predecessor == \A n \in Nat : n # 0 => n - 1 \in 0..n
OBVIOUS

(* Whatever ends in onValueChange leaves such a list and nothing else.     *)
LEMMA PicksSelection ==
  ASSUME PickerTypeOK, Picks
  PROVE  PickerTypeOK'
<1> SUFFICES selectedValues' \in Seq(Options) /\ IsInjective(selectedValues')
  BY DEF PickerTypeOK, Picks
<1>0. selectedValues \in Seq(Options) /\ IsInjective(selectedValues)
  BY DEF PickerTypeOK
<1>1. CASE \E v \in Options : SelectItem(v) \/ RemoveBadge(v)
  BY <1>0, <1>1, ToggleSelection DEF SelectItem, RemoveBadge
<1>2. CASE PopLast
  <2>1. CASE selectedValues = <<>>
    BY <1>0, <1>2, <2>1 DEF PopLast
  <2>2. CASE selectedValues # <<>>
    <3>1. Len(selectedValues) \in Nat /\ Len(selectedValues) # 0
      BY <1>0, <2>2, LenProperties, EmptySeq
    <3>3. Len(selectedValues) - 1 \in 0..Len(selectedValues)
      BY <3>1, Predecessor, Zenon
    <3> QED  BY <1>0, <1>2, <2>2, <3>3, SubSelection DEF PopLast, Front
  <2> QED  BY <2>1, <2>2
<1>3. CASE handleClear
  BY <1>3 DEF handleClear, IsInjective
<1>4. CASE clearExtraOptions
  <2>1. MaxCount \in 0..Len(selectedValues)
    BY <1>0, <1>4, LenProperties, MultiSelectAssumption DEF clearExtraOptions, responsiveSettings, hasMoreBadge
  <2> QED  BY <1>0, <1>4, <2>1, SubSelection DEF clearExtraOptions, responsiveSettings
<1> QED  BY <1>1, <1>2, <1>3, <1>4 DEF Picks

\* What groups and codes stand for are codes.
LEMMA ExpandsToCodes ==
  ASSUME NEW values
  PROVE  expandedValues(values) \subseteq Codes
BY StatusCodesAssumption DEF expandedValues, CodesOf

--------------------------------------------------------------------------------
(* The invariant: types, that the codes in the form are shown ones, and    *)
(* that there are some while a group is ticked.                            *)
ShownOnly ==
  advancedOpen /\ lastEvent # "reset" =>
    /\ acceptedStatusCodes \subseteq Shown
    /\ acceptedStatusCodes = {} => Range(selectedValues) \cap Groups = {}

StatusInv == StatusTypeOK /\ ShownOnly

\* The invariant holds of the form as it is opened.
LEMMA StatusInitInv == StatusInit => StatusInv
<1> SUFFICES ASSUME StatusInit PROVE StatusInv
  OBVIOUS
<1>1. StatusTypeOK
  BY StatusCodesAssumption, EmptySelection
     DEF StatusInit, StatusTypeOK, PickerTypeOK, Unmounted
<1>2. ShownOnly
  BY DEF StatusInit, ShownOnly
<1> QED  BY <1>1, <1>2 DEF StatusInv

\* A picker that is gone has the types of one.
LEMMA UnmountTypes ==
  ASSUME Unmount
  PROVE  PickerTypeOK' /\ Unmounted'
BY EmptySelection DEF Unmount, PickerTypeOK, Unmounted

\* Whatever is ticked or unticked keeps the invariant.
LEMMA ChangeInv ==
  ASSUME StatusInv, ChangeSelection
  PROVE  StatusInv'
<1> USE DEF StatusInv, StatusTypeOK
<1>1. PickerTypeOK'
  BY PicksSelection DEF ChangeSelection
<1>2. /\ acceptedStatusCodes' \subseteq expandedValues(Range(selectedValues'))
      /\ groupKeysRef' \subseteq Groups
      /\ lastEvent' = "change"
      /\ advancedOpen /\ advancedOpen' = advancedOpen /\ type' = type
  BY DEF ChangeSelection, onValueChange
<1>3. acceptedStatusCodes' \subseteq Codes
  BY <1>2, ExpandsToCodes
<1>4. StatusTypeOK'
  BY <1>1, <1>2, <1>3
<1>5. ASSUME NEW g \in Range(selectedValues') \cap Groups PROVE acceptedStatusCodes' # {}
  <2>1. PICK c \in GroupCodes[g] : c \in Codes
    BY StatusCodesAssumption
  <2>2. c \in expandedValues(Range(selectedValues'))
    BY <2>1 DEF expandedValues, CodesOf
  <2>3. c \notin CodesOf(groupKeysRef \ (Range(selectedValues') \cap Groups))
    <3>1. \A h \in Groups : h # g => c \notin GroupCodes[h]
      BY <2>1, StatusCodesAssumption
    <3> QED BY <3>1 DEF CodesOf
  <2> QED BY <2>2, <2>3 DEF ChangeSelection, onValueChange
<1>6. ShownOnly'
  BY <1>2, <1>5 DEF ShownOnly, Shown, expandedValues, CodesOf
<1> QED  BY <1>4, <1>6

\* Looking around in the picker changes nothing of it.
LEMMA BrowseInv ==
  ASSUME StatusInv, BrowseOptions
  PROVE  StatusInv'
<1> USE DEF StatusInv, StatusTypeOK, BrowseOptions, codeVars
<1>1. UNCHANGED selectedValues /\ PickerTypeOK'
  BY DEF PickerTypeOK, Browses, PopoverTrigger, handleTogglePopover, PopoverContent,
         setIsPopoverOpen, setSearchValue
<1>2. ShownOnly'
  BY <1>1 DEF ShownOnly, Shown, expandedValues, CodesOf
<1> QED  BY <1>1, <1>2

\* A picker that appears shows what is accepted.
LEMMA OpenInv ==
  ASSUME StatusInv, OpenAdvanced
  PROVE  StatusInv'
<1> USE DEF StatusInv, StatusTypeOK, OpenAdvanced, AccordionTrigger, AccordionContent
<1>1. acceptedStatusCodes \subseteq Options /\ IsFiniteSet(acceptedStatusCodes)
  BY StatusCodesAssumption, FS_Subset
<1>2. selectedValues' \in Seq(Options) /\ IsInjective(selectedValues')
  BY <1>1, MountSelection DEF Mount
<1>3. StatusTypeOK'
  BY <1>2 DEF PickerTypeOK, Mount
<1>4. acceptedStatusCodes \subseteq Range(selectedValues')
  BY <1>1, MountShows DEF Mount
<1>5. Range(selectedValues') = acceptedStatusCodes /\ acceptedStatusCodes' = acceptedStatusCodes
  BY <1>1, MountShows DEF Mount
<1>6. Range(selectedValues') \cap Groups = {}
  BY <1>5, StatusCodesAssumption
<1>7. ShownOnly'
  BY <1>4, <1>5, <1>6 DEF ShownOnly, Shown, expandedValues
<1> QED  BY <1>3, <1>7

\* Every step of the field keeps the invariant.
LEMMA StatusNextInv ==
  ASSUME StatusInv, [StatusNext]_statusVars
  PROVE  StatusInv'
<1>1. CASE ChangeSelection  BY <1>1, ChangeInv
<1>2. CASE BrowseOptions    BY <1>2, BrowseInv
<1>3. CASE OpenAdvanced     BY <1>3, OpenInv
<1>4. CASE CloseAdvanced
  BY <1>4, UnmountTypes
     DEF CloseAdvanced, AccordionTrigger, AccordionContent, StatusInv, StatusTypeOK,
         ShownOnly
<1>5. CASE switchType
  BY <1>5, UnmountTypes, StatusCodesAssumption
     DEF switchType, UnmountSettings, StatusInv, StatusTypeOK, ShownOnly
<1>6. CASE resetCodes
  <2>1. CASE type = "http"
    <3>1. type' = "http" /\ acceptedStatusCodes' = DefaultCodes /\ lastEvent' = "reset"
          /\ UNCHANGED <<pickerVars, advancedOpen, groupKeysRef>>
      BY <1>6, <2>1 DEF resetCodes
    <3>2. PickerTypeOK' /\ (Unmounted' <=> Unmounted)
      BY <3>1 DEF StatusInv, StatusTypeOK, PickerTypeOK, Unmounted, pickerVars
    <3> QED  BY <3>1, <3>2, StatusCodesAssumption
      DEF StatusInv, StatusTypeOK, ShownOnly
  <2>2. CASE type # "http"
    BY <1>6, <2>2, UnmountTypes, StatusCodesAssumption
       DEF resetCodes, UnmountSettings, StatusInv, StatusTypeOK, ShownOnly
  <2> QED  BY <2>1, <2>2
<1>7. CASE leaveSettings
  BY <1>7, UnmountTypes
     DEF leaveSettings, UnmountSettings, StatusInv, StatusTypeOK, ShownOnly
<1>8. CASE UNCHANGED statusVars
  BY <1>8 DEF statusVars, pickerVars, codeVars, StatusInv, StatusTypeOK, PickerTypeOK,
              Unmounted, ShownOnly, Shown, expandedValues, CodesOf
<1> QED
  BY <1>1, <1>2, <1>3, <1>4, <1>5, <1>6, <1>7, <1>8 DEF StatusNext

\* The invariant holds in every behaviour of the field.
LEMMA StatusInvariance == StatusSpec => []StatusInv
BY StatusInitInv, StatusNextInv, PTL DEF StatusSpec

(* The picker never selects a value twice or one it was not offered, and   *)
(* has no state while it is not on the page.                               *)
THEOREM StatusTypeCorrect == StatusSpec => []StatusTypeOK
BY StatusInvariance, PTL DEF StatusInv

(* What counts as a success is shown, or the form's list is empty and the  *)
(* picker shows no group.                                                  *)
THEOREM AcceptsShownCodes == StatusSpec => []AcceptsOnlyShown
<1>1. StatusInv => AcceptsOnlyShown
  BY DEF StatusInv, ShownOnly, AcceptsOnlyShown, acceptedStatus
<1> QED  BY <1>1, StatusInvariance, PTL

--------------------------------------------------------------------------------
(* After a change the ref holds the groups of the selection.               *)
RefFollows ==
  advancedOpen /\ lastEvent = "change" => groupKeysRef = Range(selectedValues) \cap Groups

\* Every step keeps the ref in step with the selection.
LEMMA RefNext ==
  ASSUME RefFollows, [StatusNext]_statusVars
  PROVE  RefFollows'
<1> USE DEF RefFollows
<1>1. CASE ChangeSelection
  BY <1>1 DEF ChangeSelection, onValueChange
<1>2. CASE BrowseOptions
  BY <1>2 DEF BrowseOptions, Browses, PopoverTrigger, handleTogglePopover, PopoverContent,
             setIsPopoverOpen, setSearchValue, codeVars
<1>3. CASE OpenAdvanced
  BY <1>3 DEF OpenAdvanced
<1>4. CASE CloseAdvanced \/ switchType \/ leaveSettings
  BY <1>4 DEF CloseAdvanced, AccordionTrigger, switchType, leaveSettings, UnmountSettings
<1>5. CASE resetCodes
  BY <1>5 DEF resetCodes, UnmountSettings
<1>6. CASE UNCHANGED statusVars
  BY <1>6 DEF statusVars, pickerVars, codeVars
<1> QED  BY <1>1, <1>2, <1>3, <1>4, <1>5, <1>6 DEF StatusNext

\* Removing an option makes a list shorter.
LEMMA Shorter ==
  ASSUME NEW s \in Seq(Options), NEW k \in DOMAIN s
  PROVE  Len(RemoveAt(s, k)) = Len(s) - 1
<1>1. Len(s) \in Nat /\ DOMAIN s = 1..Len(s)
  BY LenProperties
<1>2. /\ SubSeq(s, 1, k - 1) \in Seq(Options) /\ Len(SubSeq(s, 1, k - 1)) = k - 1
      /\ SubSeq(s, k + 1, Len(s)) \in Seq(Options)
      /\ Len(SubSeq(s, k + 1, Len(s))) = Len(s) - k
  BY <1>1
<1>3. Len(RemoveAt(s, k)) = (k - 1) + (Len(s) - k)
  BY <1>2, ConcatProperties DEF RemoveAt
<1> QED  BY <1>1, <1>3

\* Cutting a list does not make it longer.
LEMMA CutLength ==
  ASSUME NEW s \in Seq(Options), NEW n \in 0..Len(s)
  PROVE  Len(SubSeq(s, 1, n)) = n
BY LenProperties

(* What is shown and not accepted was unticked with the same change, or by *)
(* the first change of a picker, with the groups of an earlier one.        *)
THEOREM DropsAlwaysUnticked == StatusSpec => DropsAreUnticked
<1>1. StatusInit => RefFollows
  BY DEF StatusInit, RefFollows
<1>2. StatusInv /\ RefFollows =>
        [ChangeSelection =>
           Shown' \ acceptedStatusCodes' \subseteq
             CodesOf(Groups \cap (Range(selectedValues) \ Range(selectedValues')))
               \cup IF lastEvent = "change" THEN {} ELSE CodesOf(groupKeysRef)]_statusVars
  <2> SUFFICES ASSUME StatusInv, RefFollows, ChangeSelection,
                      NEW c \in Shown', c \notin acceptedStatusCodes'
               PROVE  \/ c \in CodesOf(Groups \cap (Range(selectedValues) \ Range(selectedValues')))
                      \/ lastEvent # "change" /\ c \in CodesOf(groupKeysRef)
    OBVIOUS
  <2>1. c \in expandedValues(Range(selectedValues'))
    BY DEF Shown, expandedValues, CodesOf
  <2>2. PICK g \in groupKeysRef \ (Range(selectedValues') \cap Groups) : c \in GroupCodes[g]
    BY <2>1 DEF ChangeSelection, onValueChange, CodesOf
  <2>3. g \in Groups \ Range(selectedValues')
    BY <2>2 DEF StatusInv, StatusTypeOK
  <2>4. lastEvent = "change" => g \in Range(selectedValues)
    BY <2>2 DEF RefFollows, ChangeSelection
  <2> QED  BY <2>2, <2>3, <2>4 DEF CodesOf
<1> QED
  BY <1>1, <1>2, RefNext, StatusInvariance, PTL DEF StatusSpec, DropsAreUnticked

--------------------------------------------------------------------------------
(* A cut selection holds nothing new.                                      *)
LEMMA CutRange ==
  ASSUME NEW s \in Seq(Options), NEW n \in 0..Len(s)
  PROVE  Range(SubSeq(s, 1, n)) \subseteq Range(s)
<1>1. Len(s) \in Nat /\ DOMAIN s = 1..Len(s)
  BY LenProperties
<1>2. /\ DOMAIN SubSeq(s, 1, n) = 1..n
      /\ \A i \in 1..n : SubSeq(s, 1, n)[i] = s[i]
      /\ 1..n \subseteq 1..Len(s)
  BY <1>1
<1> QED  BY <1>1, <1>2, Zenon DEF Range

\* Removing an option leaves exactly the others.
LEMMA RemoveRange ==
  ASSUME NEW s \in Seq(Options), NEW k \in DOMAIN s
  PROVE  Range(RemoveAt(s, k)) \subseteq Range(s)
<1> DEFINE A == SubSeq(s, 1, k - 1)
           B == SubSeq(s, k + 1, Len(s))
<1>1. Len(s) \in Nat /\ DOMAIN s = 1..Len(s)
  BY LenProperties
<1>2. k \in 1..Len(s) /\ k \in Nat
  BY <1>1
<1>3. A \in Seq(Options) /\ Len(A) = k - 1 /\ \A i \in 1..(k - 1) : A[i] = s[i]
  BY <1>1, <1>2
<1>4. /\ B \in Seq(Options)
      /\ Len(B) = Len(s) - k
      /\ \A i \in 1..(Len(s) - k) : B[i] = s[k + i]
  BY <1>1, <1>2
<1> HIDE DEF A, B
<1>5. /\ A \o B \in Seq(Options)
      /\ Len(A \o B) = Len(A) + Len(B)
      /\ \A i \in 1..(Len(A) + Len(B)) :
           (A \o B)[i] = IF i <= Len(A) THEN A[i] ELSE B[i - Len(A)]
  BY <1>3, <1>4, ConcatProperties
<1>6. PICK n \in Nat : n = Len(s)
  BY <1>1
<1>7. ASSUME NEW i \in 1..(n - 1)
      PROVE  \E j \in 1..n : (A \o B)[i] = s[j]
  <2>1. (A \o B)[i] = IF i <= k - 1 THEN A[i] ELSE B[i - (k - 1)]
    BY <1>2, <1>3, <1>4, <1>5, <1>6
  <2>2. CASE i <= k - 1
    <3>1. i \in 1..(k - 1) /\ i \in 1..n
      BY <1>2, <2>2
    <3> QED  BY <1>3, <2>1, <2>2, <3>1
  <2>3. CASE ~(i <= k - 1)
    <3>1. i - (k - 1) \in 1..(n - k) /\ k + (i - (k - 1)) \in 1..n
      BY <1>2, <1>6, <2>3
    <3> QED  BY <1>4, <1>6, <2>1, <2>3, <3>1
  <2> QED  BY <2>2, <2>3
<1>8. DOMAIN (A \o B) = 1..(n - 1)
  <2>1. Len(A \o B) = n - 1
    BY <1>2, <1>3, <1>4, <1>5, <1>6
  <2> QED  BY <1>5, <2>1, LenProperties
<1>9. RemoveAt(s, k) = A \o B
  BY DEF RemoveAt, A, B
<1> SUFFICES ASSUME NEW x \in Range(RemoveAt(s, k))
             PROVE  x \in Range(s)
  OBVIOUS
<1>10. PICK i \in DOMAIN (A \o B) : x = (A \o B)[i]
  BY <1>9, Zenon DEF Range
<1>11. PICK j \in 1..n : (A \o B)[i] = s[j]
  BY <1>7, <1>8, <1>10
<1>12. j \in DOMAIN s /\ x = s[j]
  BY <1>1, <1>6, <1>10, <1>11
<1> QED  BY <1>12, Zenon DEF Range

\* The option that was ticked is the one announced.
LEMMA TickAnnounced ==
  ASSUME NEW s \in Seq(Options), NEW v
  PROVE  /\ v \in Options => Len(Append(s, v)) = Len(s) + 1
         /\ v \in Options => Append(s, v)[Len(Append(s, v))] = v
         /\ v \in Options => Range(Append(s, v)) = Range(s) \cup {v}
<1> SUFFICES ASSUME v \in Options
             PROVE  /\ Len(Append(s, v)) = Len(s) + 1
                    /\ Append(s, v)[Len(Append(s, v))] = v
                    /\ Range(Append(s, v)) = Range(s) \cup {v}
  OBVIOUS
<1>1. /\ Append(s, v) \in Seq(Options)
      /\ Len(Append(s, v)) = Len(s) + 1
      /\ \A i \in 1..Len(s) : Append(s, v)[i] = s[i]
      /\ Append(s, v)[Len(s) + 1] = v
  BY AppendProperties
<1>2. DOMAIN Append(s, v) = 1..(Len(s) + 1) /\ DOMAIN s = 1..Len(s)
  BY <1>1, LenProperties
<1>3. 1..(Len(s) + 1) = 1..Len(s) \cup {Len(s) + 1}
  BY LenProperties
<1>4. ASSUME NEW x
      PROVE  x \in Range(Append(s, v)) <=> x \in Range(s) \cup {v}
  <2>1. x \in Range(Append(s, v)) <=> \E i \in 1..(Len(s) + 1) : x = Append(s, v)[i]
    BY <1>2, Zenon DEF Range
  <2>2. x \in Range(s) <=> \E i \in 1..Len(s) : x = s[i]
    BY <1>2, Zenon DEF Range
  <2>3. (\E i \in 1..(Len(s) + 1) : x = Append(s, v)[i])
          <=> (\E i \in 1..Len(s) : x = Append(s, v)[i]) \/ x = Append(s, v)[Len(s) + 1]
    BY <1>3, Zenon
  <2> QED  BY <1>1, <2>1, <2>2, <2>3, Zenon
<1> QED  BY <1>1, <1>4

\* Whatever ends in onValueChange is announced for what it is.
LEMMA PickAnnounced ==
  ASSUME PickerTypeOK, Picks, selectedValues' # selectedValues
  PROVE  \/ \E value \in Options \ Range(selectedValues) :
              /\ SaysSelected(value)
              /\ Range(selectedValues') = Range(selectedValues) \cup {value}
         \/ SaysRemoved /\ Range(selectedValues') \subseteq Range(selectedValues)
<1>0. selectedValues \in Seq(Options)
  BY DEF PickerTypeOK
<1>1. PICK n \in Nat : n = Len(selectedValues)
  BY <1>0, LenProperties
<1>a. ASSUME NEW m \in 0..n, m < n, selectedValues' = SubSeq(selectedValues, 1, m)
      PROVE  SaysRemoved /\ Range(selectedValues') \subseteq Range(selectedValues)
  BY <1>0, <1>1, <1>a, CutLength, CutRange DEF SaysRemoved
<1>2. CASE \E v \in Options : SelectItem(v) \/ RemoveBadge(v)
  <2>1. PICK v \in Options : toggleOption(v)
    BY <1>2 DEF SelectItem, RemoveBadge
  <2>2. CASE v \notin Range(selectedValues) /\ selectedValues' = Append(selectedValues, v)
    BY <1>0, <2>2, TickAnnounced DEF SaysSelected
  <2>3. CASE \E i \in DOMAIN selectedValues : selectedValues' = RemoveAt(selectedValues, i)
    <3>1. Len(selectedValues') = n - 1
      BY <1>0, <1>1, <2>3, Shorter
    <3>2. SaysRemoved
      BY <1>1, <3>1 DEF SaysRemoved
    <3> QED  BY <1>0, <2>3, <3>2, RemoveRange
  <2> QED  BY <2>1, <2>2, <2>3 DEF toggleOption
<1>3. CASE PopLast
  <2>1. selectedValues # <<>>
    BY <1>3 DEF PopLast
  <2>2. n # 0
    BY <1>0, <1>1, <2>1, EmptySeq
  <2>3. n - 1 \in 0..n /\ n - 1 < n
    BY <2>2
  <2>4. selectedValues' = SubSeq(selectedValues, 1, n - 1)
    BY <1>1, <1>3, <2>1 DEF PopLast, Front
  <2> QED  BY <1>a, <2>3, <2>4
<1>4. CASE handleClear
  <2>1. n # 0
    BY <1>0, <1>1, <1>4, EmptySeq DEF handleClear
  <2>2. Len(selectedValues') = 0 /\ Range(selectedValues') = {}
    BY <1>4, EmptySeq DEF handleClear, Range
  <2> QED  BY <1>1, <2>1, <2>2 DEF SaysRemoved
<1>5. CASE clearExtraOptions
  <2>1. MaxCount \in 0..n /\ MaxCount < n
    BY <1>1, <1>5, MultiSelectAssumption DEF clearExtraOptions, responsiveSettings, hasMoreBadge
  <2> QED  BY <1>5, <1>a, <2>1 DEF clearExtraOptions, responsiveSettings
<1> QED  BY <1>2, <1>3, <1>4, <1>5 DEF Picks

(* Every change a user makes in the picker is announced as what it was.    *)
THEOREM PicksAlwaysAnnounced == StatusSpec => PicksAreAnnounced
<1>1. StatusInv => [ChangeSelection /\ selectedValues' # selectedValues =>
        /\ ~SaysToggled
        /\ \/ \E value \in Options \ Range(selectedValues) :
                /\ SaysSelected(value)
                /\ Range(selectedValues') = Range(selectedValues) \cup {value}
           \/ SaysRemoved /\ Range(selectedValues') \subseteq Range(selectedValues)]_statusVars
  <2> SUFFICES ASSUME StatusInv, ChangeSelection, selectedValues' # selectedValues
               PROVE  /\ ~SaysToggled
                      /\ \/ \E value \in Options \ Range(selectedValues) :
                              /\ SaysSelected(value)
                              /\ Range(selectedValues') = Range(selectedValues) \cup {value}
                         \/ /\ SaysRemoved
                            /\ Range(selectedValues') \subseteq Range(selectedValues)
    OBVIOUS
  <2>1. PickerTypeOK /\ Picks
    BY DEF ChangeSelection, StatusInv, StatusTypeOK
  <2>2. ~SaysToggled
    BY <2>1 DEF Picks, SaysToggled
  <2> QED  BY <2>1, <2>2, PickAnnounced
<1> QED
  BY <1>1, StatusInvariance, PTL DEF PicksAreAnnounced

--------------------------------------------------------------------------------
(* The page around the field: its steps are the field's or leave it alone. *)

\* Every step of the page is a step of the field or none.
LEMMA PageStepIsStatusStep == [Next]_vars => [StatusNext]_statusVars
<1> SUFFICES ASSUME [Next]_vars PROVE [StatusNext]_statusVars
  OBVIOUS
<1>1. CASE UNCHANGED vars
  BY <1>1 DEF vars
<1>2. CASE UserStep
  BY <1>2 DEF UserStep, EditInput, ToggleRegion, UsePicker, switchMonitorType, SubmitRefused,
              SubmitSent, Leave, DropForm, StatusNext
<1>3. CASE ServerStep
  BY <1>3 DEF ServerStep, HandlerRefuses, HandlerGoesOn, HandlerCreates, Handled
<1>4. CASE ClientStep
  BY <1>4 DEF ClientStep, ReceiveCreated, ReceiveRefused, ReceiveUnauthorized, Abort, DropForm,
              StatusNext
<1>5. CASE RouterStep
  BY <1>5 DEF RouterStep, fetchMonitors, MonitorsPage, DropForm, StatusNext
<1> QED  BY <1>1, <1>2, <1>3, <1>4, <1>5 DEF Next

\* The page implements the field: what StatusCodes promises holds whatever
\* is typed, sent and answered around it (new-monitor.tsx:376, http.tsx:103).
THEOREM PageImplementsStatus == Spec => StatusSpec
<1>1. Init => StatusInit
  BY DEF Init
<1> QED  BY <1>1, PageStepIsStatusStep, PTL DEF Spec, StatusSpec

\* On the page, too, what the worker will count as a success is shown, but for
\* the empty list (http.tsx:386, core/monitor/http.go:145).
THEOREM PageAcceptsShownCodes == Spec => []AcceptsOnlyShown
BY PageImplementsStatus, AcceptsShownCodes, PTL

\* And codes that are shown are dropped only with a group just unticked, or by
\* the first change of a picker (http.tsx:371-437).
THEOREM DropsUntickedOnPage == Spec => DropsAreUnticked
BY PageImplementsStatus, DropsAlwaysUnticked, PTL

--------------------------------------------------------------------------------
(* What the page holds beside the field.  An answer on its way says what   *)
(* the handler did, unless that was the refused configuration; an error    *)
(* is about what its input holds; and from the moment the list was read it *)
(* has all that was reported as created.                                   *)
AnswersAreTrue == \A s \in Submissions :
  /\ requests[s].answer # "none" => requests[s].server # "pending"
  /\ requests[s].answer = "200" => requests[s].server = "created"
  /\ requests[s].answer \in {"4xx", "keys", "401"} /\ oddConfig(s) = {} => requests[s].server = "refused"

ErrorsAreCurrent ==
  /\ errors \subseteq Inputs \cup {"regions"}
  /\ \A f \in errors \cap InputsOf(type) : contents[f] = "bad"
  /\ "regions" \in errors => regions = {}
  /\ ~isSubmitted => errors \cap Inputs = {}

Reported(s) == requests[s].client = "created"

ReadHasReported ==
  navigation = "loaded" \/ (navigation = "none" /\ page = "list") =>
    \A s \in Submissions : Reported(s) => parseMonitor(s) \in listed

PageTypes ==
  /\ contents \in [Inputs -> {"bad", "odd", "ok"}]
  /\ \A f \in Inputs : contents[f] \in Contents(f)
  /\ regions \subseteq Regions
  /\ requests \in [Submissions -> Request]
  /\ isSubmitted \in BOOLEAN
  /\ isSubmitting \in BOOLEAN
  /\ page \in {"form", "list", "gone", "login"}
  /\ navigation \in {"none", "pushed", "loaded"}
  /\ listed \subseteq MonitorListItem

PageInv ==
  StatusInv /\ PageTypes /\ AnswersAreTrue /\ ErrorsAreCurrent /\ ReportIsTrue /\ ReadHasReported

\* "regions" is the name of no input.
LEMMA RegionsIsNoInput ==
  "regions" \notin Inputs /\ InputsOf("http") \subseteq Inputs /\ InputsOf("ping") \subseteq Inputs
BY DEF Inputs, InputsOf, BaseInputs, ConfigInputs, Types, BasicInputs, NotificationBoxes, Thresholds, AdvancedInputs,
       RequestInputs, HeaderInputs, BodyInputs, ValidationBoxes, PingInputs

\* The defaults are contents the inputs may have.
LEMMA DefaultsAreContents ==
  Defaults \in [Inputs -> {"bad", "odd", "ok"}] /\ \A f \in Inputs : Defaults[f] \in Contents(f)
BY DEF Defaults, Contents, ChoiceInputs, NotificationBoxes, Thresholds, ValidationBoxes

\* A form that is dropped or sent anew has no errors.
LEMMA DropFormTypes ==
  ASSUME DropForm
  PROVE  /\ contents' \in [Inputs -> {"bad", "odd", "ok"}]
         /\ \A f \in Inputs : contents'[f] \in Contents(f)
         /\ regions' \subseteq Regions
         /\ isSubmitted' \in BOOLEAN /\ isSubmitting' \in BOOLEAN
         /\ errors' = {}
BY DefaultsAreContents, Zenon DEF DropForm

\* What concerns the requests stays true while they do.
LEMMA RequestsKept ==
  ASSUME PageInv, UNCHANGED requests
  PROVE  AnswersAreTrue' /\ ReportIsTrue'
BY DEF PageInv, AnswersAreTrue, ReportIsTrue, oddConfig

\* What concerns the list stays true while the requests and the page do.
LEMMA ListKept ==
  ASSUME PageInv, UNCHANGED <<requests, page, navigation, listed>>
  PROVE  ReadHasReported'
BY DEF PageInv, ReadHasReported, Reported, parseMonitor

\* No errors, none out of date.
LEMMA NoErrors ==
  ASSUME errors' = {}
  PROVE  ErrorsAreCurrent'
BY DEF ErrorsAreCurrent

\* The page is dropped or leads elsewhere, and the requests go on.
LEMMA DroppedKeeps ==
  ASSUME PageInv, StatusInv', DropForm, UNCHANGED requests,
         page' \in {"form", "list", "gone", "login"}, navigation' \in {"none", "pushed", "loaded"},
         listed' \subseteq MonitorListItem, ReadHasReported'
  PROVE  PageInv'
<1>1. PageTypes'
  BY DropFormTypes DEF PageInv, PageTypes
<1> QED  BY <1>1, RequestsKept, DropFormTypes, NoErrors DEF PageInv

\* What the user does keeps the invariant, a submission aside.
LEMMA EditKeeps ==
  ASSUME PageInv, StatusInv',
         \/ \E f \in Inputs, content \in {"bad", "odd", "ok"} : EditInput(f, content)
         \/ \E r \in Regions : ToggleRegion(r)
         \/ UsePicker \/ switchMonitorType \/ SubmitRefused
  PROVE  PageInv'
<1>0. UNCHANGED <<requests, pageVars>>
  BY DEF EditInput, ToggleRegion, UsePicker, switchMonitorType, SubmitRefused
<1>1. AnswersAreTrue' /\ ReportIsTrue' /\ ReadHasReported'
  BY <1>0, RequestsKept, ListKept DEF pageVars
<1>2. ASSUME NEW f \in Inputs, NEW content \in {"bad", "odd", "ok"}, EditInput(f, content)
      PROVE  PageTypes' /\ ErrorsAreCurrent'
  <2>1. UNCHANGED <<type, regions, isSubmitted, isSubmitting>>
    BY <1>2 DEF EditInput, statusVars, codeVars
  <2>2. /\ contents' = [contents EXCEPT ![f] = content] /\ content \in Contents(f)
        /\ contents \in [Inputs -> {"bad", "odd", "ok"}]
        /\ errors' = IF isSubmitted
                       THEN (errors \ {f}) \cup (IF content = "bad" THEN {f} ELSE {})
                       ELSE errors
    BY <1>2 DEF EditInput, PageInv, PageTypes
  <2>3. PageTypes'
    <3>1. contents' \in [Inputs -> {"bad", "odd", "ok"}] /\ \A g \in Inputs : contents'[g] \in Contents(g)
      BY <2>2 DEF PageInv, PageTypes
    <3> QED  BY <1>0, <2>1, <3>1 DEF PageInv, PageTypes, pageVars
  <2>4. InputsOf(type) \subseteq Inputs
    BY RegionsIsNoInput DEF PageInv, StatusInv, StatusTypeOK
  <2>5. ErrorsAreCurrent /\ InputsOf(type)' = InputsOf(type) /\ "regions" # f
    BY <2>1, RegionsIsNoInput DEF PageInv, InputsOf, ConfigInputs
  <2>6. ErrorsAreCurrent'
    <3>1. CASE isSubmitted
      BY <2>1, <2>2, <2>4, <2>5, <3>1 DEF ErrorsAreCurrent
    <3>2. CASE ~isSubmitted
      BY <2>1, <2>2, <2>4, <2>5, <3>2 DEF ErrorsAreCurrent
    <3> QED  BY <3>1, <3>2
  <2> QED  BY <2>3, <2>6
<1>3. ASSUME NEW r \in Regions, ToggleRegion(r) PROVE PageTypes' /\ ErrorsAreCurrent'
  <2>1. UNCHANGED <<type, contents, isSubmitted, isSubmitting>>
    BY <1>3 DEF ToggleRegion, statusVars, codeVars
  <2>2. /\ regions' \subseteq Regions
        /\ errors' = (errors \ {"regions"}) \cup (IF regions' = {} THEN {"regions"} ELSE {})
    BY <1>3 DEF ToggleRegion, toggleListValue, PageInv, PageTypes
  <2>3. PageTypes'
    BY <1>0, <2>1, <2>2 DEF PageInv, PageTypes, pageVars
  <2>4. InputsOf(type) \subseteq Inputs
    BY RegionsIsNoInput DEF PageInv, StatusInv, StatusTypeOK
  <2>5. ErrorsAreCurrent /\ InputsOf(type)' = InputsOf(type) /\ "regions" \notin Inputs
    BY <2>1, RegionsIsNoInput DEF PageInv, InputsOf, ConfigInputs
  <2> QED
    BY <2>1, <2>2, <2>3, <2>4, <2>5 DEF ErrorsAreCurrent
<1>4. CASE UsePicker
  <2>1. UNCHANGED formVars /\ UNCHANGED type
    BY <1>4 DEF UsePicker, ChangeSelection, BrowseOptions, codeVars, OpenAdvanced, CloseAdvanced
  <2>2. PageTypes'
    BY <1>0, <2>1 DEF PageInv, PageTypes, formVars, pageVars
  <2>3. ErrorsAreCurrent'
    BY <2>1 DEF PageInv, ErrorsAreCurrent, InputsOf, ConfigInputs, formVars
  <2> QED  BY <1>1, <2>2, <2>3 DEF PageInv
<1>5. CASE switchMonitorType
  <2>1. contents' \in [Inputs -> {"bad", "odd", "ok"}] /\ \A g \in Inputs : contents'[g] \in Contents(g)
    BY <1>5, DefaultsAreContents DEF switchMonitorType, PageInv, PageTypes
  <2>2. UNCHANGED <<regions, isSubmitted, isSubmitting>> /\ errors' = {}
    BY <1>5 DEF switchMonitorType
  <2>3. PageTypes'
    BY <1>0, <2>1, <2>2 DEF PageInv, PageTypes, pageVars
  <2> QED  BY <1>1, <2>2, <2>3, NoErrors DEF PageInv
<1>6. CASE SubmitRefused
  <2>1. /\ errors' = Refused /\ isSubmitted' = TRUE /\ isSubmitting' = FALSE
        /\ UNCHANGED <<type, contents, regions>>
    BY <1>6 DEF SubmitRefused, statusVars, codeVars
  <2>2. InputsOf(type) \subseteq Inputs
    BY RegionsIsNoInput DEF PageInv, StatusInv, StatusTypeOK
  <2>3. InputsOf(type)' = InputsOf(type) /\ "regions" \notin Inputs
    BY <2>1, RegionsIsNoInput DEF InputsOf, ConfigInputs
  <2>4. ErrorsAreCurrent'
    BY <2>1, <2>2, <2>3 DEF Refused, ErrorsAreCurrent
  <2>5. PageTypes'
    BY <1>0, <2>1 DEF PageInv, PageTypes, pageVars
  <2> QED  BY <1>1, <2>4, <2>5 DEF PageInv
<1> QED
  BY <1>1, <1>2, <1>3, <1>4, <1>5, <1>6 DEF PageInv

\* A request gets into a new state, in which what it says is true.
LEMMA RequestChanges ==
  ASSUME PageInv, NEW s \in Submissions, NEW q \in Request,
         requests' = [requests EXCEPT ![s] = q],
         q.answer # "none" => q.server # "pending",
         q.answer = "200" => q.server = "created",
         q.answer \in {"4xx", "keys", "401"} /\ q.odd \ BaseInputs = {} => q.server = "refused",
         q.client = "created" => q.server = "created",
         q.client = "refused" /\ q.odd \ BaseInputs = {} => q.server = "refused"
  PROVE  requests' \in [Submissions -> Request] /\ AnswersAreTrue' /\ ReportIsTrue'
<1>1. requests \in [Submissions -> Request] /\ AnswersAreTrue /\ ReportIsTrue
  BY DEF PageInv, PageTypes
<1>2. requests'[s] = q /\ \A t \in Submissions : t # s => requests'[t] = requests[t]
  BY <1>1
<1>3. requests' \in [Submissions -> Request]
  BY <1>1
<1>4. AnswersAreTrue'
  BY <1>1, <1>2 DEF AnswersAreTrue, oddConfig
<1>5. ReportIsTrue'
  BY <1>1, <1>2 DEF ReportIsTrue, oddConfig
<1> QED  BY <1>3, <1>4, <1>5

\* The list keeps what was reported when a request gets into a state in
\* which nothing new is.
LEMMA NothingReported ==
  ASSUME PageInv, NEW s \in Submissions, NEW q,
         requests' = [requests EXCEPT ![s] = q],
         q.client = "created" => Reported(s) /\ q.type = requests[s].type,
         UNCHANGED <<page, navigation, listed>>
  PROVE  ReadHasReported'
<1>1. requests \in [Submissions -> Request] /\ ReadHasReported
  BY DEF PageInv, PageTypes
<1>2. requests'[s] = q /\ \A t \in Submissions : t # s => requests'[t] = requests[t]
  BY <1>1
<1>3. ASSUME NEW t \in Submissions, Reported(t)'
      PROVE  Reported(t) /\ parseMonitor(t)' = parseMonitor(t)
  BY <1>2, <1>3 DEF Reported, parseMonitor
<1> QED  BY <1>1, <1>3 DEF ReadHasReported

\* A form that is sent is a request that says nothing yet.
LEMMA SubmitSentKeeps ==
  ASSUME PageInv, StatusInv', NEW s \in Submissions, SubmitSent(s)
  PROVE  PageInv'
<1> DEFINE q == [client |-> "waiting", server |-> "pending", answer |-> "none",
                 type |-> type, odd |-> buildCreateMonitorPayload]
<1>1. type \in Types
  BY DEF PageInv, StatusInv, StatusTypeOK, Types
<1>2. buildCreateMonitorPayload \in SUBSET Inputs
  BY <1>1, RegionsIsNoInput DEF buildCreateMonitorPayload, Types
<1>3. q \in Request
  BY <1>1, <1>2 DEF Request
<1>4. q.client = "waiting" /\ q.server = "pending" /\ q.answer = "none"
  OBVIOUS
<1> HIDE DEF q
<1>5. requests' = [requests EXCEPT ![s] = q]
  BY DEF SubmitSent, q
<1>6. UNCHANGED <<contents, regions, isSubmitted, page, navigation, listed>> /\ isSubmitting' = TRUE
        /\ errors' = {}
  BY DEF SubmitSent, pageVars
<1>7. requests' \in [Submissions -> Request] /\ AnswersAreTrue' /\ ReportIsTrue'
  BY <1>3, <1>4, <1>5, RequestChanges
<1>8. ReadHasReported'
  BY <1>4, <1>5, <1>6, NothingReported
<1>9. PageTypes'
  BY <1>6, <1>7 DEF PageInv, PageTypes
<1> QED  BY <1>6, <1>7, <1>8, <1>9, NoErrors DEF PageInv

\* The handler ends one way or the other, and its answer says which.
LEMMA HandledKeeps ==
  ASSUME PageInv, StatusInv', NEW s \in Submissions, NEW outcome \in {"created", "refused"},
         NEW answer \in {"200", "4xx", "keys", "401", "5xx"}, Handled(s, outcome, answer),
         answer = "200" => outcome = "created",
         answer \in {"4xx", "keys", "401"} /\ oddConfig(s) = {} => outcome = "refused"
  PROVE  PageInv'
<1> DEFINE a == IF requests[s].client = "waiting" THEN answer ELSE "none"
<1> DEFINE q == [requests[s] EXCEPT !.server = outcome, !.answer = a]
<1>1. /\ requests[s] \in Request /\ requests[s].server = "pending"
      /\ requests' = [requests EXCEPT ![s] = q]
      /\ UNCHANGED formVars /\ UNCHANGED pageVars /\ UNCHANGED type
  BY DEF Handled, PageInv, PageTypes, statusVars, codeVars
<1>2. a \in {"none", "200", "4xx", "keys", "401", "5xx"} /\ (a = "none" \/ a = answer)
  OBVIOUS
<1> HIDE DEF a
<1>3. q \in Request /\ q.server = outcome /\ q.answer = a
        /\ q.client = requests[s].client /\ q.odd = requests[s].odd /\ q.type = requests[s].type
  BY <1>1, <1>2 DEF Request, ApiErrors
<1> HIDE DEF q
<1>4. requests[s].client # "created" /\ ~(requests[s].client = "refused" /\ oddConfig(s) = {})
  BY <1>1 DEF PageInv, ReportIsTrue
<1>5. requests' \in [Submissions -> Request] /\ AnswersAreTrue' /\ ReportIsTrue'
  BY <1>1, <1>2, <1>3, <1>4, RequestChanges DEF oddConfig
<1>6. ReadHasReported'
  BY <1>1, <1>3, <1>4, NothingReported DEF pageVars
<1>7. PageTypes'
  BY <1>1, <1>5 DEF PageInv, PageTypes, formVars, pageVars
<1>8. ErrorsAreCurrent'
  BY <1>1 DEF PageInv, ErrorsAreCurrent, InputsOf, ConfigInputs, formVars
<1> QED  BY <1>5, <1>6, <1>7, <1>8 DEF PageInv

\* The server's steps: a "4xx" of a monitor that is created follows a
\* configuration that was refused.
LEMMA ServerStepKeeps ==
  ASSUME PageInv, StatusInv', ServerStep
  PROVE  PageInv'
<1>1. PICK s \in Submissions : HandlerRefuses(s) \/ HandlerGoesOn(s) \/ HandlerCreates(s)
  BY DEF ServerStep
<1>2. CASE HandlerRefuses(s)
  BY <1>2, HandledKeeps DEF HandlerRefuses
<1>3. CASE HandlerGoesOn(s)
  BY <1>3, HandledKeeps DEF HandlerGoesOn, parseJson
<1>4. CASE HandlerCreates(s)
  BY <1>4, HandledKeeps DEF HandlerCreates, oddConfig
<1> QED  BY <1>1, <1>2, <1>3, <1>4

\* The page learns what became of a request, truly.
LEMMA EndsKeeps ==
  ASSUME PageInv, NEW s \in Submissions, NEW client \in {"created", "refused", "unknown"},
         Ends(s, client),
         client = "created" => requests[s].answer = "200",
         client = "refused" => requests[s].answer \in {"4xx", "keys", "401"}
  PROVE  /\ requests' \in [Submissions -> Request] /\ AnswersAreTrue' /\ ReportIsTrue'
         /\ client # "created" /\ UNCHANGED <<page, navigation, listed>> => ReadHasReported'
<1> DEFINE q == [requests[s] EXCEPT !.client = client, !.answer = "none"]
<1>1. requests[s] \in Request /\ requests' = [requests EXCEPT ![s] = q]
  BY DEF Ends, PageInv, PageTypes
<1>2. q \in Request /\ q.client = client /\ q.answer = "none"
        /\ q.server = requests[s].server /\ q.odd = requests[s].odd
  BY <1>1 DEF Request
<1> HIDE DEF q
<1>3. /\ requests[s].answer = "200" => requests[s].server = "created"
      /\ requests[s].answer \in {"4xx", "keys", "401"} /\ requests[s].odd \ BaseInputs = {}
           => requests[s].server = "refused"
  BY DEF PageInv, AnswersAreTrue, oddConfig
<1>4. requests' \in [Submissions -> Request] /\ AnswersAreTrue' /\ ReportIsTrue'
  BY <1>1, <1>2, <1>3, RequestChanges
<1>5. ASSUME client # "created", UNCHANGED <<page, navigation, listed>> PROVE ReadHasReported'
  BY <1>1, <1>2, <1>5, NothingReported
<1> QED  BY <1>4, <1>5

\* Failing leaves what the form holds.
LEMMA FailsKeeps ==
  ASSUME PageInv, StatusInv', NEW s \in Submissions, NEW client \in {"refused", "unknown"},
         Fails(s, client), UNCHANGED <<statusVars, pageVars>>,
         client = "refused" => requests[s].answer \in {"4xx", "keys", "401"}
  PROVE  PageInv'
<1>1. Ends(s, client)
  BY DEF Fails
<1>2. UNCHANGED <<contents, regions, errors, type, page, navigation, listed>>
  BY DEF Fails, formVars, pageVars, statusVars, codeVars
<1>3. /\ \/ isSubmitted' = TRUE /\ isSubmitting' = FALSE
         \/ UNCHANGED <<isSubmitted, isSubmitting>>
      /\ isSubmitted' \in BOOLEAN /\ isSubmitting' \in BOOLEAN
  BY Zenon DEF Fails, formVars, PageInv, PageTypes
<1>4. /\ requests' \in [Submissions -> Request] /\ AnswersAreTrue' /\ ReportIsTrue'
      /\ ReadHasReported'
  BY <1>1, <1>2, EndsKeeps
<1>5. PageTypes'
  BY <1>2, <1>3, <1>4 DEF PageInv, PageTypes
<1>6. ErrorsAreCurrent'
  BY <1>2, <1>3 DEF PageInv, ErrorsAreCurrent, InputsOf, ConfigInputs
<1> QED  BY <1>4, <1>5, <1>6 DEF PageInv

\* What the page does with an answer, and when it gives up, keeps the
\* invariant.
LEMMA ClientStepKeeps ==
  ASSUME PageInv, StatusInv', ClientStep
  PROVE  PageInv'
<1>1. PICK s \in Submissions :
        ReceiveCreated(s) \/ ReceiveRefused(s) \/ ReceiveUnauthorized(s) \/ Abort(s)
  BY DEF ClientStep
<1>2. CASE ReceiveRefused(s) \/ Abort(s)
  <2>1. \E client \in {"refused", "unknown"} :
          /\ Fails(s, client) /\ UNCHANGED <<statusVars, pageVars>>
          /\ client = "refused" => requests[s].answer \in {"4xx", "keys", "401"}
    BY <1>2 DEF ReceiveRefused, Abort, Answered
  <2> QED  BY <2>1, FailsKeeps
<1>3. CASE ReceiveCreated(s)
  <2>1. /\ Ends(s, "created") /\ requests[s].answer = "200"
        /\ navigation' = "pushed" /\ UNCHANGED <<page, listed>>
    BY <1>3 DEF ReceiveCreated, Answered
  <2>2. requests' \in [Submissions -> Request] /\ AnswersAreTrue' /\ ReportIsTrue'
    BY <2>1, EndsKeeps
  <2>3. ReadHasReported'
    BY <2>1 DEF ReadHasReported
  <2>4. CASE page = "form"
    <3>1. contents' = Defaults /\ regions' = Regions /\ errors' = {}
            /\ isSubmitted' = TRUE /\ isSubmitting' = FALSE
      BY <1>3, <2>4 DEF ReceiveCreated
    <3>2. PageTypes'
      BY <2>1, <2>2, <3>1, DefaultsAreContents DEF PageInv, PageTypes
    <3> QED  BY <2>2, <2>3, <3>1, <3>2, NoErrors DEF PageInv
  <2>5. CASE page # "form"
    <3>1. UNCHANGED formVars /\ UNCHANGED type
      BY <1>3, <2>5 DEF ReceiveCreated, statusVars, codeVars
    <3>2. PageTypes'
      BY <2>1, <2>2, <3>1 DEF PageInv, PageTypes, formVars
    <3>3. ErrorsAreCurrent'
      BY <3>1 DEF PageInv, ErrorsAreCurrent, InputsOf, ConfigInputs, formVars
    <3> QED  BY <2>2, <2>3, <3>2, <3>3 DEF PageInv
  <2> QED  BY <2>4, <2>5
<1>4. CASE ReceiveUnauthorized(s)
  <2>1. /\ Ends(s, "refused") /\ requests[s].answer = "401" /\ DropForm
        /\ page' = "login" /\ navigation' = "none" /\ listed' = {}
    BY <1>4 DEF ReceiveUnauthorized, Answered
  <2>2. requests' \in [Submissions -> Request] /\ AnswersAreTrue' /\ ReportIsTrue'
    BY <2>1, EndsKeeps
  <2>3. ReadHasReported'
    BY <2>1 DEF ReadHasReported
  <2>4. PageTypes'
    BY <2>1, <2>2, DropFormTypes DEF PageTypes
  <2> QED  BY <2>1, <2>2, <2>3, <2>4, DropFormTypes, NoErrors DEF PageInv
<1> QED  BY <1>1, <1>2, <1>3, <1>4

\* A list that is read has what was created, and so what was reported.
LEMMA RouterStepKeeps ==
  ASSUME PageInv, StatusInv', RouterStep
  PROVE  PageInv'
<1>1. CASE fetchMonitors
  <2>1. /\ navigation' = "loaded" /\ UNCHANGED <<requests, page, formVars, type>>
        /\ listed' = {parseMonitor(s) : s \in {t \in Submissions : requests[t].server = "created"}}
    BY <1>1 DEF fetchMonitors, parseMonitors, statusVars, codeVars
  <2>2. ASSUME NEW s \in Submissions PROVE parseMonitor(s) \in MonitorListItem
    BY DEF parseMonitor, MonitorListItem
  <2>3. listed' \subseteq MonitorListItem
    BY <2>1, <2>2
  <2>4. ReadHasReported'
    <3>1. ASSUME NEW s \in Submissions, Reported(s)' PROVE parseMonitor(s)' \in listed'
      <4>1. requests[s].server = "created"
        BY <2>1, <3>1 DEF PageInv, ReportIsTrue, Reported
      <4>2. parseMonitor(s)' = parseMonitor(s)
        BY <2>1 DEF parseMonitor
      <4> QED  BY <2>1, <4>1, <4>2
    <3> QED  BY <3>1 DEF ReadHasReported
  <2>5. PageTypes'
    BY <2>1, <2>3 DEF PageInv, PageTypes, formVars
  <2>6. ErrorsAreCurrent'
    BY <2>1 DEF PageInv, ErrorsAreCurrent, InputsOf, ConfigInputs, formVars
  <2> QED  BY <2>1, <2>4, <2>5, <2>6, RequestsKept DEF PageInv
<1>2. CASE MonitorsPage
  <2>1. /\ navigation = "loaded" /\ navigation' = "none" /\ page' = "list"
        /\ UNCHANGED <<requests, listed>>
        /\ DropForm \/ UNCHANGED <<statusVars, formVars>>
    BY <1>2 DEF MonitorsPage
  <2>2. ReadHasReported'
    BY <2>1 DEF PageInv, ReadHasReported, Reported, parseMonitor
  <2>3. CASE DropForm
    BY <2>1, <2>2, <2>3, DroppedKeeps DEF PageInv, PageTypes
  <2>4. CASE UNCHANGED <<statusVars, formVars>>
    <3>1. PageTypes'
      BY <2>1, <2>4 DEF PageInv, PageTypes, formVars
    <3>2. ErrorsAreCurrent'
      BY <2>4 DEF PageInv, ErrorsAreCurrent, InputsOf, ConfigInputs, formVars, statusVars, codeVars
    <3> QED  BY <2>1, <2>2, <3>1, <3>2, RequestsKept DEF PageInv
  <2> QED  BY <2>1, <2>3, <2>4
<1> QED  BY <1>1, <1>2 DEF RouterStep

\* The user goes elsewhere.
LEMMA LeaveKeeps ==
  ASSUME PageInv, StatusInv', Leave
  PROVE  PageInv'
<1>1. /\ page' = "gone" /\ navigation' = "none" /\ listed' = {} /\ DropForm /\ UNCHANGED requests
  BY DEF Leave
<1>2. ReadHasReported'
  BY <1>1 DEF ReadHasReported
<1> QED  BY <1>1, <1>2, DroppedKeeps

\* The invariant holds of the page as it is opened.
LEMMA PageInvInitially == Init => PageInv
<1> SUFFICES ASSUME Init PROVE PageInv
  OBVIOUS
<1>1. StatusInv
  BY StatusInitInv DEF Init
<1> DEFINE q == [client |-> "idle", server |-> "none", answer |-> "none", type |-> "http", odd |-> {}]
<1>2. q \in Request /\ q.client = "idle" /\ q.answer = "none"
  BY DEF Request, Types
<1>3. requests = [s \in Submissions |-> q]
  BY DEF Init
<1> HIDE DEF q
<1>4. AnswersAreTrue /\ ReportIsTrue
  BY <1>2, <1>3 DEF AnswersAreTrue, ReportIsTrue
<1>5. /\ contents = Defaults /\ regions = Regions /\ errors = {} /\ isSubmitted = FALSE
      /\ isSubmitting = FALSE /\ page = "form" /\ navigation = "none" /\ listed = {}
  BY DEF Init
<1>6. PageTypes
  BY <1>2, <1>3, <1>5, DefaultsAreContents DEF PageTypes
<1>7. ErrorsAreCurrent /\ ReadHasReported
  BY <1>5 DEF ErrorsAreCurrent, ReadHasReported
<1> QED  BY <1>1, <1>4, <1>6, <1>7 DEF PageInv

\* Every step of the page keeps the invariant.
LEMMA PageInvKept == PageInv /\ [Next]_vars => PageInv'
<1> SUFFICES ASSUME PageInv, [Next]_vars PROVE PageInv'
  OBVIOUS
<1>0. StatusInv'
  BY PageStepIsStatusStep, StatusNextInv DEF PageInv
<1>1. CASE UNCHANGED vars
  <2>1. UNCHANGED <<type, contents, regions, errors, isSubmitted, isSubmitting, requests, page,
                    navigation, listed>>
    BY <1>1 DEF vars, statusVars, codeVars, formVars, pageVars
  <2>2. PageTypes'
    BY <2>1 DEF PageInv, PageTypes
  <2>3. ErrorsAreCurrent'
    BY <2>1 DEF PageInv, ErrorsAreCurrent, InputsOf, ConfigInputs
  <2> QED  BY <1>0, <2>1, <2>2, <2>3, RequestsKept, ListKept DEF PageInv
<1>2. CASE UserStep
  BY <1>0, <1>2, EditKeeps, SubmitSentKeeps, LeaveKeeps DEF UserStep
<1>3. CASE ServerStep \/ ClientStep \/ RouterStep
  BY <1>0, <1>3, ServerStepKeeps, ClientStepKeeps, RouterStepKeeps
<1> QED  BY <1>1, <1>2, <1>3 DEF Next

\* The invariant holds in every behaviour of the page (new-monitor.tsx:376).
THEOREM PageHolds == Spec => []PageInv
BY PageInvInitially, PageInvKept, PTL DEF Spec

\* Types of the page, for any inputs followed, regions and submissions
\* (new-monitor.tsx:376, lib/schemas/monitor.ts:181).
THEOREM PageTypeCorrect == Spec => []TypeOK
<1>1. PageInv => TypeOK
  BY DEF PageInv, PageTypes, StatusInv, ErrorsAreCurrent, TypeOK
<1> QED  BY <1>1, PageHolds, PTL

\* What is reported of a submission is so, however many are under way and
\* whatever is late or lost (client.ts:113, new-monitor.tsx:443).
THEOREM ReportAlwaysTrue == Spec => []ReportIsTrue
<1>1. PageInv => ReportIsTrue
  BY DEF PageInv
<1> QED  BY <1>1, PageHolds, PTL

\* An error that is shown is about what its field holds now
\* (new-monitor.tsx:106, 113).
THEOREM FieldErrorsAlwaysCurrent == Spec => []FieldErrorsAreCurrent
<1>1. PageInv => FieldErrorsAreCurrent
  BY RegionsIsNoInput DEF PageInv, ErrorsAreCurrent, FieldErrorsAreCurrent, FieldError
<1> QED  BY <1>1, PageHolds, PTL

\* The list has all that was reported as created before it was asked for,
\* and is asked for again when more is (new-monitor.tsx:441).
THEOREM ListAlwaysShowsCreated == Spec => []ListShowsCreated
<1>1. ASSUME PageInv, NEW s \in Submissions
      PROVE  parseMonitor(s) =
        [id |-> s, targetLabel |-> IF requests[s].type = "ping" THEN "Host" ELSE "URL"]
  <2>1. requests[s].type \in Types
    BY <1>1 DEF PageInv, PageTypes, Request
  <2> QED  BY <2>1 DEF parseMonitor, Types
<1>2. PageInv => ListShowsCreated
  BY <1>1 DEF PageInv, ReadHasReported, Reported, ListShowsCreated
<1> QED  BY <1>2, PageHolds, PTL
================================================================================
