------------------------------ MODULE NewMonitor -------------------------------
(***************************************************************************)
(* The page that creates a monitor: the form of                            *)
(* website/components/monitor/new/{new-monitor,http,ping}.tsx, its schema  *)
(* (website/lib/schemas/monitor.ts), the request it sends                  *)
(* (website/lib/api/{client,monitor,error}.ts) and the handler that        *)
(* answers (api/handler/monitor/create_monitor.go).  The accepted status   *)
(* codes are StatusCodes; the page's steps are steps of it or leave it     *)
(* alone.                                                                  *)
(*                                                                         *)
(* An input is abstracted to what the two validations make of its content: *)
(* "bad" is refused by the form's schema, "odd" passes the schema and is   *)
(* refused by the server (an interval of 2 to 29 seconds, a host that is   *)
(* neither a host name nor an address, a URL that only the browser takes   *)
(* for one), "ok" passes both.                                             *)
(***************************************************************************)
EXTENDS StatusCodes

CONSTANTS
  Watched,          \* bound: the inputs an instance follows, by their names
  Regions,          \* the regions offered, all ticked at first
  MaxSubmissions    \* bound: how often the form can be sent

ASSUME NewMonitorAssumption ==
  /\ Watched \subseteq STRING
  /\ Regions # {}
  /\ MaxSubmissions \in Nat

VARIABLES
  contents,       \* contents[f]: "bad", "odd" or "ok"
  regions,        \* the regions ticked
  errors,         \* what has an error: inputs and "regions"
  isSubmitted,    \* formState.isSubmitted: edits are validated from then on
  isSubmitting,   \* formState.isSubmitting: the button shows "Creating..."
  requests,       \* the submissions that passed the schema
  page,           \* "form", "list", "gone" (another one), "login" (a new document)
  navigation,     \* to the list: "none", "pushed", "loaded" (its data is read)
  listed          \* the monitors read for the list, as parseMonitors leaves them

formVars == <<contents, regions, errors, isSubmitted, isSubmitting>>
pageVars == <<page, navigation, listed>>
vars == <<statusVars, formVars, requests, pageVars>>

Submissions == 1..MaxSubmissions
Types == {"http", "ping"}

(* The inputs of the form, by the part of the page they are in.            *)
BasicInputs == {"interval", "name"}
NotificationBoxes == {"notifications"}
Thresholds == {"failureThreshold", "recoveryThreshold"}
RequestInputs == {"http.method", "http.requestTimeout", "http.maxRedirects"}
HeaderInputs == {"http.headers"}
BodyInputs == {"http.bodyEncoding", "http.body"}
ValidationBoxes ==
  {"http.upsideDownMode", "http.certificateExpiryNotification", "http.ignoreTLSError"}
PingInputs == {"ping.host", "ping.timeoutSeconds", "ping.packetSize"}

(* Those inside the accordion.                                             *)
AdvancedInputs == RequestInputs \cup HeaderInputs \cup BodyInputs \cup ValidationBoxes

BaseInputs == Watched \cap (BasicInputs \cup NotificationBoxes \cup Thresholds)
ConfigInputs(t) ==
  Watched \cap (IF t = "http" THEN {"http.url"} \cup AdvancedInputs ELSE PingInputs)
InputsOf(t) == BaseInputs \cup ConfigInputs(t)
Inputs == UNION {InputsOf(t) : t \in Types}

(* Select boxes and checkboxes offer what the schema accepts.  Of other    *)
(* inputs the server is stricter: a host name or an address, a URL that Go *)
(* takes for one, 30 seconds at least, 255 characters at most, a header    *)
(* value that is not blank.                                                *)
ChoiceInputs ==
  NotificationBoxes \cup Thresholds \cup ValidationBoxes \cup {"http.method", "http.bodyEncoding"}
OddInputs == {"ping.host", "http.url", "interval", "name", "http.headers"}
Contents(f) ==
  IF f \in ChoiceInputs THEN {"ok"}
  ELSE {"bad", "ok"} \cup (IF f \in OddInputs THEN {"odd"} ELSE {})

(* The default of a URL and of a host is empty, which the schema refuses.  *)
Defaults == [f \in Inputs |-> IF f \in {"http.url", "ping.host"} THEN "bad" ELSE "ok"]

(* An ApiError carries the status and the body, of which only a refused    *)
(* configuration's names the fields ("keys").                              *)
ApiErrors == {"4xx", "keys", "401", "5xx"}

(* client: what the submission has come to on the page, "unknown" when it  *)
(* reports a server or a network error.  server: what the handler has done.*)
(* answer: the response on its way.  type: that of the monitor sent.  odd: *)
(* the inputs sent that the server refuses.                                *)
Request ==
  [client : {"idle", "waiting", "created", "refused", "unknown"},
   server : {"none", "pending", "created", "refused"},
   answer : {"none", "200"} \cup ApiErrors,
   type   : Types,
   odd    : SUBSET Inputs]

(* A row of the list: the target is labelled by the monitor's type.        *)
MonitorListItem == [id : Submissions, targetLabel : {"URL", "Host"}]

TypeOK ==
  /\ StatusTypeOK
  /\ contents \in [Inputs -> {"bad", "odd", "ok"}]
  /\ \A f \in Inputs : contents[f] \in Contents(f)
  /\ regions \subseteq Regions
  /\ errors \subseteq Inputs \cup {"regions"}
  /\ isSubmitted \in BOOLEAN
  /\ isSubmitting \in BOOLEAN
  /\ requests \in [Submissions -> Request]
  /\ page \in {"form", "list", "gone", "login"}
  /\ navigation \in {"none", "pushed", "loaded"}
  /\ listed \subseteq MonitorListItem

Init ==
  /\ StatusInit
  /\ contents = Defaults
  /\ regions = Regions
  /\ errors = {}
  /\ isSubmitted = FALSE
  /\ isSubmitting = FALSE
  /\ requests = [s \in Submissions |->
                   [client |-> "idle", server |-> "none", answer |-> "none",
                    type |-> "http", odd |-> {}]]
  /\ page = "form"
  /\ navigation = "none"
  /\ listed = {}

--------------------------------------------------------------------------------
(* The schema's verdict on the form as it stands.                          *)
Refused ==
  {f \in InputsOf(type) : contents[f] = "bad"}
    \cup (IF regions = {} THEN {"regions"} ELSE {})

(* An input gets new content.  After the first submission its error is     *)
(* brought up to date at once.                                             *)
EditInput(f, content) ==
  /\ page = "form"
  /\ f \in InputsOf(type)
  /\ f \in AdvancedInputs => advancedOpen
  /\ content \in Contents(f) \ {contents[f]}
  /\ contents' = [contents EXCEPT ![f] = content]
  /\ errors' = IF isSubmitted
                 THEN (errors \ {f}) \cup (IF content = "bad" THEN {f} ELSE {})
                 ELSE errors
  /\ UNCHANGED <<statusVars, regions, isSubmitted, isSubmitting, requests, pageVars>>

toggleListValue(value, list) ==
  IF value \in list THEN list \ {value} ELSE list \cup {value}

(* The checkbox of a region: setValue with shouldValidate.                 *)
ToggleRegion(region) ==
  /\ page = "form"
  /\ regions' = toggleListValue(region, regions)
  /\ errors' = (errors \ {"regions"}) \cup (IF regions' = {} THEN {"regions"} ELSE {})
  /\ UNCHANGED <<statusVars, contents, isSubmitted, isSubmitting, requests, pageVars>>

(* The picker of status codes and the accordion around it.                 *)
UsePicker ==
  /\ page = "form"
  /\ ChangeSelection \/ BrowseOptions \/ OpenAdvanced \/ CloseAdvanced
  /\ UNCHANGED <<formVars, requests, pageVars>>

(* Mutant: the errors are not cleared.                                     *)
switchKeepsErrors ==
  /\ page = "form"
  /\ switchType
  /\ contents' = [f \in Inputs |-> IF f \in BaseInputs THEN contents[f] ELSE Defaults[f]]
  /\ UNCHANGED <<regions, errors, isSubmitted, isSubmitting, requests, pageVars>>

(* A radio button: all errors are cleared, the settings left are dropped   *)
(* and those chosen start from their defaults.                             *)
switchMonitorType ==
  /\ page = "form"
  /\ switchType
  /\ contents' = [f \in Inputs |-> IF f \in BaseInputs THEN contents[f] ELSE Defaults[f]]
  /\ errors' = {}
  /\ UNCHANGED <<regions, isSubmitted, isSubmitting, requests, pageVars>>

--------------------------------------------------------------------------------
(* A Button hands its props on and has no type of its own; in a form one   *)
(* without a type submits.                                                 *)
Button(kind) == IF kind = "none" THEN "submit" ELSE kind

(* "Create monitor" is disabled while isSubmitting.  "Create new           *)
(* notifications", before it and without a type, never is, so that a click *)
(* on it, or Enter in any input, submits at any time.                      *)
Submittable == page = "form" /\ (Button("none") = "submit" \/ ~isSubmitting)

(* handleSubmit.  A form the schema refuses gets its errors; another one   *)
(* is sent by createMonitor.                                               *)
SubmitRefused ==
  /\ Submittable
  /\ Refused # {}
  /\ errors' = Refused
  /\ isSubmitted' = TRUE
  /\ isSubmitting' = FALSE
  /\ UNCHANGED <<statusVars, contents, regions, requests, pageVars>>

(* What is sent of the type's inputs: here those the server will refuse.   *)
buildCreateMonitorPayload == {f \in InputsOf(type) : contents[f] = "odd"}

SubmitSent(s) ==
  /\ Submittable
  /\ Refused = {}
  /\ requests[s].client = "idle"
  /\ \A t \in Submissions : t < s => requests[t].client # "idle"
  /\ errors' = {}
  /\ isSubmitting' = TRUE
  /\ requests' = [requests EXCEPT ![s] =
       [client |-> "waiting", server |-> "pending", answer |-> "none",
        type |-> type, odd |-> buildCreateMonitorPayload]]
  /\ UNCHANGED <<statusVars, contents, regions, isSubmitted, pageVars>>

(* CreateMonitor, as one step: it commits or changes nothing.  It may run  *)
(* after the client gave up, or never.                                     *)
Handled(s, outcome, answer) ==
  /\ requests[s].server = "pending"
  /\ requests' = [requests EXCEPT ![s] = [@ EXCEPT !.server = outcome,
       !.answer = IF requests[s].client = "waiting" THEN answer ELSE "none"]]
  /\ UNCHANGED <<statusVars, formVars, pageVars>>

oddConfig(s) == requests[s].odd \ BaseInputs

(* Refused before the configuration is looked at, or for any other reason: *)
(* no session, no permission, an unknown region, a failed statement.       *)
HandlerRefuses(s) ==
  \E answer \in {"4xx", "401", "5xx"} : Handled(s, "refused", answer)

(* What the client makes of a 400 that names the fields: a body of more    *)
(* than one document does not parse, and stays a text that names none.     *)
parseJson(documents) == IF documents = 1 THEN "keys" ELSE "4xx"

(* The configuration fails its validation: validateMonitorConfig writes    *)
(* the 400 with the fields' names and returns nil, so the handler goes on. *)
(* If it fails after that the 400 stands; if not the monitor is created,   *)
(* and a second document follows the first.                                *)
HandlerGoesOn(s) ==
  /\ requests[s].odd \cap BaseInputs = {}
  /\ oddConfig(s) # {}
  /\ Handled(s, "refused", parseJson(1)) \/ Handled(s, "created", parseJson(2))

(* The commit may also have succeeded without the handler learning it.     *)
HandlerCreates(s) ==
  /\ requests[s].odd = {}
  /\ \E answer \in {"200", "5xx"} : Handled(s, "created", answer)

--------------------------------------------------------------------------------
Ends(s, client) ==
  requests' = [requests EXCEPT ![s] = [@ EXCEPT !.client = client, !.answer = "none"]]

(* Mutant: the button is left as it is.                                    *)
FailsSpinning(s, client) ==
  /\ Ends(s, client)
  /\ IF page # "form"
       THEN UNCHANGED formVars
       ELSE /\ isSubmitted' = TRUE
            /\ UNCHANGED <<contents, regions, errors, isSubmitting>>

(* The end of handleSubmit, when the answer is not the expected one.       *)
Fails(s, client) ==
  /\ Ends(s, client)
  /\ IF page # "form"
       THEN UNCHANGED formVars
       ELSE /\ isSubmitted' = TRUE
            /\ isSubmitting' = FALSE
            /\ UNCHANGED <<contents, regions, errors>>

(* A new document does not hear of the old one's requests.                 *)
Waits(s) == requests[s].client = "waiting" /\ page # "login"

Answered(s, answers) ==
  /\ Waits(s)
  /\ requests[s].answer \in answers

(* Mutant: the router is not told to leave a page that is no longer there. *)
ReceiveCreatedThere(s) ==
  /\ Answered(s, {"200"})
  /\ Ends(s, "created")
  /\ IF page # "form"
       THEN UNCHANGED <<statusVars, formVars, navigation>>
       ELSE /\ resetCodes
            /\ contents' = Defaults
            /\ regions' = Regions
            /\ errors' = {}
            /\ isSubmitted' = TRUE
            /\ isSubmitting' = FALSE
            /\ navigation' = "pushed"
  /\ UNCHANGED <<page, listed>>

(* createMonitor resolves: the form is reset to its defaults, the toast    *)
(* says the monitor was created, and the router is told to go to the list, *)
(* from whatever page the user has gone to meanwhile.                      *)
ReceiveCreated(s) ==
  /\ Answered(s, {"200"})
  /\ Ends(s, "created")
  /\ navigation' = "pushed"
  /\ IF page # "form"
       THEN UNCHANGED <<statusVars, formVars>>
       ELSE /\ resetCodes
            /\ contents' = Defaults
            /\ regions' = Regions
            /\ errors' = {}
            /\ isSubmitted' = TRUE
            /\ isSubmitting' = FALSE
  /\ UNCHANGED <<page, listed>>

(* An ApiError sets the error of the form, or, if it names fields, errors  *)
(* under names that no field of the form has: no input gets one.           *)
ReceiveRefused(s) ==
  /\ \/ Answered(s, {"4xx", "keys"}) /\ Fails(s, "refused")
     \/ Answered(s, {"5xx"}) /\ Fails(s, "unknown")
  /\ UNCHANGED <<statusVars, pageVars>>

(* The form leaves the page, and what was typed is lost.                   *)
DropForm ==
  /\ leaveSettings
  /\ contents' = Defaults
  /\ regions' = Regions
  /\ errors' = {}
  /\ isSubmitted' = FALSE
  /\ isSubmitting' = FALSE

(* The document is replaced by the login page.                             *)
ReceiveUnauthorized(s) ==
  /\ Answered(s, {"401"})
  /\ Ends(s, "refused")
  /\ page' = "login"
  /\ navigation' = "none"
  /\ listed' = {}
  /\ DropForm

(* Mutant: a request that was given up is reported as refused.             *)
AbortRefuses(s) ==
  /\ Waits(s)
  /\ Fails(s, "refused")
  /\ UNCHANGED <<statusVars, pageVars>>

(* The connection fails, or the 15 seconds are over and the request is     *)
(* aborted, answered or not.                                               *)
Abort(s) ==
  /\ Waits(s)
  /\ Fails(s, "unknown")
  /\ UNCHANGED <<statusVars, pageVars>>

--------------------------------------------------------------------------------
parseMonitor(s) ==
  [id |-> s, targetLabel |-> IF requests[s].type = "http" THEN "URL" ELSE "Host"]

parseMonitors(rawList) == {parseMonitor(s) : s \in rawList}

(* The web server asks for the team's monitors; what is created afterwards *)
(* is not on the list that is on its way.                                  *)
fetchMonitors ==
  /\ navigation = "pushed"
  /\ navigation' = "loaded"
  /\ listed' = parseMonitors({s \in Submissions : requests[s].server = "created"})
  /\ UNCHANGED <<statusVars, formVars, requests, page>>

(* The list replaces the page that was shown.                              *)
MonitorsPage ==
  /\ navigation = "loaded"
  /\ navigation' = "none"
  /\ page' = "list"
  /\ IF page = "form" THEN DropForm ELSE UNCHANGED <<statusVars, formVars>>
  /\ UNCHANGED <<requests, listed>>

(* The user follows another link, whatever the router was about to do.     *)
Leave ==
  /\ page = "form"
  /\ page' = "gone"
  /\ navigation' = "none"
  /\ listed' = {}
  /\ DropForm
  /\ UNCHANGED requests

UserStep ==
  \/ \E f \in Inputs, content \in {"bad", "odd", "ok"} : EditInput(f, content)
  \/ \E r \in Regions : ToggleRegion(r)
  \/ UsePicker
  \/ switchMonitorType
  \/ SubmitRefused
  \/ \E s \in Submissions : SubmitSent(s)
  \/ Leave

ServerStep == \E s \in Submissions :
  HandlerRefuses(s) \/ HandlerGoesOn(s) \/ HandlerCreates(s)

ClientStep == \E s \in Submissions :
  ReceiveCreated(s) \/ ReceiveRefused(s) \/ ReceiveUnauthorized(s) \/ Abort(s)

RouterStep == fetchMonitors \/ MonitorsPage

Next == UserStep \/ ServerStep \/ ClientStep \/ RouterStep

Spec == Init /\ [][Next]_vars

(* The timer of every request runs out in the end.                         *)
FairSpec == Spec /\ \A s \in Submissions : WF_vars(Abort(s))

--------------------------------------------------------------------------------
(* The errors on the screen: each is beside its input, which a closed      *)
(* accordion hides.                                                        *)
FieldError ==
  {f \in errors \cap (InputsOf(type) \cup {"regions"}) :
     f \in AdvancedInputs => advancedOpen}

(* An error shown beside a field is about what the field holds now: no     *)
(* error outlives the content, the region list or the type it was about    *)
(* (new-monitor.tsx:106, 113).                                             *)
FieldErrorsAreCurrent ==
  /\ \A f \in FieldError \cap Inputs : contents[f] = "bad"
  /\ "regions" \in FieldError => regions = {}

(* What the page reports of a submission is true: one reported as created  *)
(* is, one refused with a message is not, unless it is the configuration   *)
(* that the server refused.                                                *)
ReportIsTrue == \A s \in Submissions :
  /\ requests[s].client = "created" => requests[s].server = "created"
  /\ requests[s].client = "refused" /\ oddConfig(s) = {} => requests[s].server = "refused"

(* The button does not stay disabled: a form that is being sent, however   *)
(* often, is answered or gives up (client.ts:113, new-monitor.tsx:443).    *)
SpinnerEnds == isSubmitting ~> ~isSubmitting

(* The list that follows a report of success has the monitor, under the    *)
(* label of its type, however many requests are answered while it loads or *)
(* after it appeared (new-monitor.tsx:441, monitors/page.tsx:55).          *)
ListShowsCreated ==
  page = "list" /\ navigation = "none" =>
    \A s \in Submissions : requests[s].client = "created" =>
      [id |-> s, targetLabel |-> IF requests[s].type = "ping" THEN "Host" ELSE "URL"]
        \in listed

(* A monitor the server answers 400 for is not created (the handler's own  *)
(* comment lists 400 as a failure, create_monitor.go:40).  It fails: see   *)
(* HandlerGoesOn.                                                          *)
RefusedIsNotCreated == \A s \in Submissions :
  requests[s].client = "refused" => requests[s].server # "created"
================================================================================
