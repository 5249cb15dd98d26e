------------------------------ MODULE StatusCodes ------------------------------
(***************************************************************************)
(* The accepted status codes of the form for a new HTTP monitor            *)
(* (website/components/monitor/new/http.tsx).  The form holds codes; the   *)
(* picker also offers whole groups ("All 2xx"), which the form expands and *)
(* of which it remembers the last ones ticked in a ref, to tell which      *)
(* group was unticked.                                                     *)
(*                                                                         *)
(* Three things live for different times: the codes as long as the type    *)
(* stays "http", the ref as long as the HTTP settings are on the page, the *)
(* picker as long as the accordion "Advanced Setting" is open.             *)
(***************************************************************************)
EXTENDS MultiSelect

CONSTANTS
  Groups,         \* the values "group:1xx" .. "group:5xx"
  Codes,          \* httpStatusCodes
  GroupCodes,     \* GroupCodes[g]: the codes from g.start to g.end
  DefaultCodes,   \* acceptedStatusCodes of the form's default values: 200
  Successes       \* the status codes 200 to 299, offered or not

ASSUME StatusCodesAssumption ==
  /\ Options = Groups \cup Codes
  /\ Groups \cap Codes = {}
  /\ IsFiniteSet(Codes)
  /\ GroupCodes \in [Groups -> (SUBSET Codes) \ {{}}]
  /\ \A g, h \in Groups : g # h => GroupCodes[g] \cap GroupCodes[h] = {}
  /\ DefaultCodes \subseteq Codes

VARIABLES
  type,                 \* the monitor type the radio buttons show
  acceptedStatusCodes,  \* form value http.acceptedStatusCodes
  groupKeysRef,         \* selectedStatusGroupKeysRef.current
  advancedOpen,         \* the accordion is open and the picker mounted
  lastEvent             \* history: what the picker or the field saw last

codeVars == <<type, acceptedStatusCodes, groupKeysRef, advancedOpen, lastEvent>>
statusVars == <<pickerVars, codeVars>>

StatusTypeOK ==
  /\ PickerTypeOK
  /\ type \in {"http", "ping"}
  /\ acceptedStatusCodes \subseteq Codes
  /\ groupKeysRef \subseteq Groups
  /\ advancedOpen \in BOOLEAN
  /\ lastEvent \in {"mount", "change", "reset"}
  /\ type = "ping" => acceptedStatusCodes = {} /\ ~advancedOpen
  /\ ~advancedOpen => Unmounted

StatusInit ==
  /\ Unmounted
  /\ type = "http"
  /\ acceptedStatusCodes = DefaultCodes
  /\ groupKeysRef = {}
  /\ advancedOpen = FALSE
  /\ lastEvent = "mount"

--------------------------------------------------------------------------------
(* What a set of groups stands for, and what a selection shows as accepted.*)
CodesOf(groups) == UNION {GroupCodes[g] : g \in groups}
expandedValues(values) == (values \cap Codes) \cup CodesOf(values \cap Groups)
Shown == expandedValues(Range(selectedValues))

(* What the worker counts as a success: for an empty list every 2xx.       *)
acceptedStatus(accepted) == IF accepted = {} THEN Successes ELSE accepted

(* Mutants: codes no longer selected stay accepted; a group once ticked is *)
(* taken for unticked ever after.                                          *)
onValueChangeMerges(values) ==
  /\ acceptedStatusCodes' = acceptedStatusCodes \cup expandedValues(values)
  /\ groupKeysRef' = values \cap Groups
  /\ lastEvent' = "change"

onValueChangeKeepsRef(values) ==
  /\ acceptedStatusCodes' = expandedValues(values) \ CodesOf(groupKeysRef \ values)
  /\ groupKeysRef' = groupKeysRef \cup (values \cap Groups)
  /\ lastEvent' = "change"

(* The form's onValueChange: groups are expanded, and the codes of every   *)
(* group the ref holds and the selection does not are filtered out.        *)
onValueChange(values) ==
  LET nextGroupKeys == values \cap Groups
      removedGroupKeys == groupKeysRef \ nextGroupKeys
  IN  /\ acceptedStatusCodes' = expandedValues(values) \ CodesOf(removedGroupKeys)
      /\ groupKeysRef' = nextGroupKeys
      /\ lastEvent' = "change"

ChangeSelection ==
  /\ advancedOpen
  /\ Picks
  /\ onValueChange(Range(selectedValues'))
  /\ UNCHANGED <<type, advancedOpen>>

BrowseOptions == advancedOpen /\ Browses /\ UNCHANGED codeVars

(* The only item of a collapsible accordion: its trigger opens and closes  *)
(* it, and what is in it is on the page only while it is open.             *)
AccordionTrigger == advancedOpen' = ~advancedOpen
AccordionContent == IF advancedOpen' THEN Mount(acceptedStatusCodes) ELSE Unmount

(* The picker appears anew, with the codes as its default; the ref belongs *)
(* to the settings around the accordion and stays.                         *)
OpenAdvanced ==
  /\ type = "http"
  /\ ~advancedOpen
  /\ AccordionTrigger
  /\ AccordionContent
  /\ lastEvent' = "mount"
  /\ UNCHANGED <<type, acceptedStatusCodes, groupKeysRef>>

CloseAdvanced ==
  /\ advancedOpen
  /\ AccordionTrigger
  /\ AccordionContent
  /\ UNCHANGED <<type, acceptedStatusCodes, groupKeysRef, lastEvent>>

(* The HTTP settings leave the page: accordion, picker and ref are lost.   *)
UnmountSettings ==
  /\ Unmount
  /\ advancedOpen' = FALSE
  /\ groupKeysRef' = {}
  /\ lastEvent' = "mount"

(* switchMonitorType: the settings of the type left are set to undefined,  *)
(* those of the type chosen to their defaults.                             *)
switchType ==
  /\ type' = IF type = "http" THEN "ping" ELSE "http"
  /\ acceptedStatusCodes' = IF type = "http" THEN {} ELSE DefaultCodes
  /\ UnmountSettings

(* form.reset: the values become the defaults.  HTTP settings that are on  *)
(* the page stay mounted, and the picker keeps its selection.              *)
resetCodes ==
  /\ type' = "http"
  /\ acceptedStatusCodes' = DefaultCodes
  /\ IF type = "http"
       THEN lastEvent' = "reset" /\ UNCHANGED <<pickerVars, advancedOpen, groupKeysRef>>
       ELSE UnmountSettings

(* The page is left.                                                       *)
leaveSettings == UnmountSettings /\ UNCHANGED <<type, acceptedStatusCodes>>

StatusNext ==
  \/ ChangeSelection
  \/ BrowseOptions
  \/ OpenAdvanced
  \/ CloseAdvanced
  \/ switchType
  \/ resetCodes
  \/ leaveSettings

StatusSpec == StatusInit /\ [][StatusNext]_statusVars

--------------------------------------------------------------------------------
(* What a monitor created now would count as a success is what the picker  *)
(* shows, whatever was ticked, unticked, closed and opened before; but an  *)
(* empty list counts every 2xx, and the form may hold one while the picker *)
(* still shows codes (http.tsx:423-446, :458; core/monitor/http.go:145).   *)
(* Then at least no whole group is among what it shows.  A form.reset      *)
(* under an open picker is the other exception.                            *)
AcceptsOnlyShown ==
  advancedOpen /\ lastEvent # "reset" =>
    \/ acceptedStatus(acceptedStatusCodes) \subseteq Shown
    \/ acceptedStatusCodes = {} /\ Range(selectedValues) \cap Groups = {}

(* A code that is shown and not accepted after a change belongs to a group *)
(* unticked by that very change: no group unticked before, in this picker  *)
(* or in one that is gone, goes on taking codes away.  Only the first      *)
(* change a picker reports, or the first after a form.reset, may also drop *)
(* codes of the groups an earlier picker had (http.tsx:386-437).           *)
DropsAreUnticked ==
  [][ChangeSelection =>
       Shown' \ acceptedStatusCodes' \subseteq
         CodesOf(Groups \cap (Range(selectedValues) \ Range(selectedValues')))
           \cup IF lastEvent = "change" THEN {} ELSE CodesOf(groupKeysRef)]_statusVars

(* Whoever cannot see the picker is told of every change of its selection, *)
(* and truly: that a value was selected only of the one that was added,    *)
(* and that one was removed only when the selection lost some and gained   *)
(* none; no other message takes its place (multi-selector.tsx:705-731 goes *)
(* by the length alone).                                                   *)
PicksAreAnnounced ==
  [][ChangeSelection /\ selectedValues' # selectedValues =>
       /\ ~SaysToggled
       /\ \/ \E value \in Options \ Range(selectedValues) :
               /\ SaysSelected(value)
               /\ Range(selectedValues') = Range(selectedValues) \cup {value}
          \/ SaysRemoved /\ Range(selectedValues') \subseteq Range(selectedValues)]_statusVars
================================================================================
