----------------------------- MODULE TrafficLight -----------------------------
(* The colour of an answer, computed four times over: by the server for        *)
(* inspections and for QC, by the browser while the user is still typing, and  *)
(* by the phone for its summary bar.  "" is an answer that is not given; any   *)
(* value outside the tables is a measurement or free text.                     *)

Kinds == {"pass_fail", "yes_no", "ok_warn_fail", "number", "text", "toggle",
          "photo", "odometer", "fuel_level"}
Urgencies == {"none", "low", "medium", "high", "critical"}
Values == {"", "pass", "yes", "ok", "warn", "fail", "no", "on", "measured"}

Informational(kind) == kind \in {"photo", "odometer", "fuel_level", "text"}

ValueLight(value) ==
  CASE value \in {"pass", "yes", "ok"} -> "green"
    [] value = "warn" -> "amber"
    [] value \in {"fail", "no"} -> "red"
    [] OTHER -> "none"

UrgencyLight(urgency) ==
  CASE urgency = "low" -> "green"
    [] urgency = "medium" -> "amber"
    [] urgency \in {"high", "critical"} -> "red"
    [] OTHER -> "none"

Reading(kind) == kind \in {"odometer", "fuel_level"}

(* inspectionTrafficLight of the server: a reading is green once it is given;  *)
(* a value it knows wins over the urgency, and any other answer is green.      *)
ServerLight(value, urgency, kind) ==
  CASE Informational(kind) -> IF Reading(kind) /\ value # "" THEN "green" ELSE "none"
    [] ~Informational(kind) /\ ValueLight(value) # "none" -> ValueLight(value)
    [] OTHER -> IF UrgencyLight(urgency) # "none" THEN UrgencyLight(urgency)
                ELSE IF value = "" THEN "none" ELSE "green"

(* The browser's guess, shown until the server answers.                        *)
BrowserLight(value, urgency, kind) ==
  CASE Informational(kind) -> IF Reading(kind) /\ value # "" THEN "green" ELSE "none"
    [] ~Informational(kind) /\ ValueLight(value) # "none" -> ValueLight(value)
    [] OTHER -> UrgencyLight(urgency)

(* The phone counts an answer by its value alone.                              *)
PhoneLight(value) ==
  IF value # "" /\ ValueLight(value) = "none" THEN "green" ELSE ValueLight(value)

QcServerLight(value) ==
  CASE value \in {"pass", "yes", "ok"} -> "green"
    [] value \in {"fail", "no"} -> "red"
    [] OTHER -> IF value = "" THEN "none" ELSE "green"

QcBrowserLight(value) ==
  CASE value \in {"pass", "yes", "ok"} -> "green"
    [] value \in {"fail", "no"} -> "red"
    [] OTHER -> "none"

IsFinding(light) == light \in {"amber", "red"}

(* What the technician sees is what the advisor gets: an answer the browser    *)
(* paints amber or red is one the server turns into a concern, and no other,   *)
(* for every kind of item, value and urgency; the phone, which looks at the    *)
(* value alone, counts none that the server would not, where a choice is made; *)
(* and on a QC form the browser and the server paint the same answers red.     *)
LightsAgree ==
  /\ \A kind \in Kinds, value \in Values, urgency \in Urgencies :
       /\ IsFinding(BrowserLight(value, urgency, kind))
            <=> IsFinding(ServerLight(value, urgency, kind))
       /\ IsFinding(PhoneLight(value)) /\ ~Informational(kind)
            => IsFinding(ServerLight(value, urgency, kind))
  /\ \A value \in Values :
       IsFinding(QcBrowserLight(value)) <=> IsFinding(QcServerLight(value))
==============================================================================
