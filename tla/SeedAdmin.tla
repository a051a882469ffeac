------------------------------ MODULE SeedAdmin ------------------------------
(***************************************************************************)
(* The seed admin of Accounts and the login form: ensure_seed_admin        *)
(* (auth.rs) stores the email as it is configured, create (routes/users.rs) *)
(* and login (routes/auth.rs) go through validate_email (validation.rs).   *)
(***************************************************************************)
EXTENDS Accounts

CONSTANT Mailboxes \* what remains of a valid email in its normal form

\* An email as somebody types or configures it: with blanks around it or not,
\* with capital letters or not.
Typed == [mailbox : Mailboxes, blanks : BOOLEAN, capitals : BOOLEAN]

Trim(e) == [e EXCEPT !.blanks = FALSE]
Lowercase(e) == [e EXCEPT !.capitals = FALSE]

\* validate_email, of an email it does not reject.
NormalForm(e) == Lowercase(Trim(e))

NormalEmails == {NormalForm(e) : e \in Typed}

\* The SELECT of login, for an email as typed into the form.
LoginFinds(e) == WithEmail(NormalForm(e))
-----------------------------------------------------------------------------
(* Properties.                                                             *)

\* README.md:33-34, "sign in with the `SEED_ADMIN_EMAIL` /
\* `SEED_ADMIN_PASSWORD` you configured": as long as nobody is erased, a login
\* under the configured email finds the seed admin.
SeedSignsIn == server = "up" => LoginFinds(SeedEmail) \cap Admins # {}
=============================================================================
