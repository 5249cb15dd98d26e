----------------------------- MODULE MCNewMonitor -----------------------------
(* The tables behind the picker of status codes, a group written as its    *)
(* first digit, and a sample of them for TLC: one group of one code, the   *)
(* default.                                                                *)
EXTENDS NewMonitor

httpStatusCodes ==
  {100, 101, 103, 104} \cup (200..208) \cup {226}
    \cup (300..304) \cup {307, 308}
    \cup (400..418) \cup (421..426) \cup {428, 429, 431, 451}
    \cup (500..508) \cup {510, 511}

(* From start to end.                                                      *)
statusCodeGroupDefinitions == [key \in 1..5 |-> (100 * key)..(100 * key + 99)]

(* A group that would offer nothing but itself is left out.                *)
statusCodeGroups ==
  LET groupCodes == [key \in 1..5 |-> statusCodeGroupDefinitions[key] \cap httpStatusCodes]
  IN  Restrict(groupCodes, {key \in 1..5 : groupCodes[key] # {}})

(* What StatusCodes assumes of groups and codes holds of the tables, and   *)
(* each code is in one group.                                              *)
ASSUME TablesAssumption ==
  /\ DOMAIN statusCodeGroups = 1..5
  /\ \A code \in httpStatusCodes : \E key \in 1..5 :
       {k \in 1..5 : code \in statusCodeGroups[k]} = {key}
  /\ 1..5 \cap httpStatusCodes = {}

(* The first rows of Taiwan in the map of regions, by their labels.        *)
REGION_MAP ==
  "TW-CHA" :> "Changhua" @@ "TW-CYI" :> "Chiayi" @@ "TW-CYQ" :> "Chiayi"
    @@ "TW-HSQ" :> "Hsinchu" @@ "TW-HSZ" :> "Hsinchu"

(* A region the map has not is shown by its name, under no country's flag. *)
parseRegion(raw) ==
  IF raw.name \in DOMAIN REGION_MAP
    THEN [id |-> raw.id, displayName |-> <<REGION_MAP[raw.name], "TW">>, flag |-> "tw"]
    ELSE [id |-> raw.id, displayName |-> <<raw.name>>, flag |-> "un"]

parseRegions(rawList) == {parseRegion(raw) : raw \in rawList}

(* What is ticked is told apart by its id: a county and the city of the    *)
(* same name have one label.                                               *)
ASSUME RegionsAssumption ==
  LET rows == parseRegions({[id |-> 1, name |-> "TW-HSQ"], [id |-> 2, name |-> "TW-HSZ"]})
  IN  Cardinality(rows) = 2 /\ Cardinality({row.displayName : row \in rows}) = 1

(* A channel of a type the client does not know is labelled by that type.  *)
NOTIFICATION_TYPE_LABELS ==
  "email" :> "Email" @@ "slack" :> "Slack" @@ "discord" :> "Discord" @@ "telegram" :> "Telegram"

parseNotification(raw) ==
  [id |-> raw.id, type |-> raw.type, name |-> raw.name,
   typeLabel |-> IF raw.type \in DOMAIN NOTIFICATION_TYPE_LABELS
                   THEN NOTIFICATION_TYPE_LABELS[raw.type] ELSE raw.type]

parseNotifications(rawList) == {parseNotification(raw) : raw \in rawList}

(* A checkbox is told apart by its id: two channels may look the same.     *)
ASSUME NotificationsAssumption ==
  LET boxes == parseNotifications({[id |-> id, type |-> "slack", name |-> "on call"] : id \in {1, 2}})
  IN  Cardinality(boxes) = 2 /\ {box.typeLabel : box \in boxes} = {"Slack"}

--------------------------------------------------------------------------------
MCCodes == {200}
MCGroups == {2}
MCOptions == MCGroups \cup MCCodes
MCGroupCodes == [g \in MCGroups |-> statusCodeGroups[g] \cap MCCodes]
MCDefaultCodes == {200}
MCSuccesses == statusCodeGroupDefinitions[2]
MCTexts == {"ok"}
MCFound == [t \in MCTexts |-> {200}]

(* An input inside the accordion, and one outside it that the server may   *)
(* refuse.                                                                 *)
MCWatched == {"http.requestTimeout", "ping.host"}

(* The region of the example environment.                                  *)
MCRegions == {row.id : row \in parseRegions({[id |-> 1, name |-> "TW-Taipei"]})}
===============================================================================
