--------------------------- MODULE MCCredentials ----------------------------
(***************************************************************************)
(* The four credentials of an account: an old password and the newer one   *)
(* of the first workspace, a password of the second workspace, and one of  *)
(* an OAuth provider, which is the newest.                                 *)
(***************************************************************************)
EXTENDS Credentials

MCRow(w, kind, provider, secret, status) ==
    [workspace |-> w, kind |-> kind, provider |-> provider, identity |-> "i",
     secret |-> secret, status |-> status, until |-> Never]
MCSeeded == <<MCRow("w1", "password", "local", Hash("p"), "revoked"),
              MCRow("w2", "password", "local", Hash("p"), "active"),
              [MCRow("w1", "password", "local", Hash("p"), "active") EXCEPT !.until = 2],
              MCRow("w1", "oauth", "google", NoSecret, "active")>>

Form(op, c, w, password, fields, row) ==
    [op |-> op, id |-> c, workspace |-> w, password |-> password, token |-> "t",
     given |-> fields, to |-> row]
New == [workspace |-> "w1", kind |-> "password", provider |-> "local", identity |-> "j",
        secret |-> Plain("q"), status |-> "revoked", until |-> 1]
OAuth == [New EXCEPT !.kind = "oauth", !.provider = "google"]

Authentications == {Form("authenticate", c, "w1", "p", {}, New) : c \in {2, 3}}
Resets == {Form("reset", 1, "w1", "q", {}, New)}
Logins == {Form("login", 1, w, "q", {}, New) : w \in {"w1", "w2"}}
Deletions == {Form("delete", c, "w1", "p", {}, New) : c \in {3, 4}}
Updates ==
    {Form("update", 3, "w1", "p", fields, New) : fields \in {{"status"}, {"until"}, {"secret"}}}
        \cup {Form("update", 4, "w1", "p", fields, New) :
                fields \in {{"kind"}, {"identity"}, {"secret"}}}
        \cup {Form("update", 3, "w1", "p", {"kind", "provider", "status"}, OAuth)}
MCInputs == [r1 |-> Authentications \cup Resets \cup Updates,
             r2 |-> Resets \cup Logins \cup Deletions \cup Updates \cup Authentications]
=============================================================================
