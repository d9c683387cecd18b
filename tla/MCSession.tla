------------------------------ MODULE MCSession ------------------------------
(* Instances of Session for TLC. *)
EXTENDS Session, TLC

MCAnswers == {"ok", "version", "version_unknown", "version_silent", "in_use", "crash",
              "other", "error"}
MCOneCaller == {"u"}
MCLogin == {"SESSION_ID", "LOGIN_PIN_REQ", "LOGIN_SUCCESS", "LOGIN_PIN_INCORRECT"}
MCOther == {"SESSION_ID", "HEARTBEAT_REQ", "KEYBOARD", "TOO_LONG"}
=============================================================================
