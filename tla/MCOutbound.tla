----------------------------- MODULE MCOutbound -----------------------------
(***************************************************************************)
(* A small instance of Outbound for TLC: every action with every field it  *)
(* looks at, and with each of them missing.                                *)
(***************************************************************************)
EXTENDS Outbound

\* What a request of each action and variant carries, besides the digits of
\* its recipient.
Full(entry, action, variant) ==
    CASE entry = "customers" -> {"to", "customer", "body", "phone"}
      [] entry = "marketing" -> {"to", "template"}
      [] entry = "leads" ->
            {"to", "body", "media", "buttons", "contact", "phone", "template"}
      [] entry = "routes" ->
            {"to", "body", "name", "code", "isDate", "video"}
      [] entry = "chats" -> {"body", "media"}
      [] action \in {"recruiting.purge_candidate", "send.recruiting_capture_start",
                     "send.recruiting_meet_link"} ->
            {"candidate", "to", "phone", "prompt", "name", "body"}
      [] action = "send.training_reminder" ->
            {"to", "name", "link", "date", "time"}
      [] action = "sent.training_message" ->
            {"ids", "to", "name", "code", "date", "time", "isDate", "link"}
      [] OTHER -> {"ids", "to", "name", "video", "interactive", "body"}

VariantsOf(action) ==
    CASE action = "send.import_sequence_step" -> ImportSteps \cup {"5"}
      [] action = "send.training_reminder" ->
            {"capacitacion_12_hora", "capacitacion_3_hora",
             "capacitacion_45_minutos", "capacitacion_5_minutos", "other"}
      [] action = "sent.training_message" -> {"reselection", "training"}
      [] OTHER -> {"only"}

ActionsOf(entry) ==
    CASE entry = "crm" -> CrmActions \cup {"unknown"}
      [] entry = "customers" ->
            {"send.potential_customer_template", "send.potential_customer_text",
             "send.potential_customer_contacts", "unknown"}
      [] entry = "marketing" -> {"send.marketing_template", "unknown"}
      [] entry = "leads" -> LeadKinds \cup {"unknown"}
      [] entry = "routes" -> DOMAIN RouteMessage
      [] entry = "chats" -> DOMAIN ChatMessage

\* All the fields, or all but one; a recipient that is missing has no digits.
Nearly(full) ==
    LET digits == IF "to" \in full THEN {"digits"} ELSE {}
    IN  {full, full \cup digits, full \ {"to"}}
            \cup {(full \cup digits) \ {f} : f \in full \ {"to"}}

AllRequests ==
    UNION {UNION {UNION {
        {[entry |-> e, action |-> a, variant |-> v, has |-> has] :
            has \in Nearly(Full(e, a, v))}
        : v \in VariantsOf(a)} : a \in ActionsOf(e)} : e \in Entries}
=============================================================================
