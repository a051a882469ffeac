----------------------------- MODULE MCStartup -----------------------------
(* Startup with small sets.                                                *)
EXTENDS Startup

Sound == [database_url |-> TRUE, session_secret |-> "first", oidc |-> OidcVars,
          default_role |-> "unset", seed |-> TRUE, address |-> TRUE]

\* One that does, with SSO, and the same with another secret; one without SSO
\* that does not; and two for which from_env refuses it.
SomeEnvironments ==
  {Sound,
   [Sound EXCEPT !.session_secret = "second"],
   [Sound EXCEPT !.oidc = {}, !.seed = FALSE, !.address = FALSE],
   [Sound EXCEPT !.oidc = @ \ {"client_secret"}],
   [Sound EXCEPT !.default_role = "other"]}
=============================================================================
