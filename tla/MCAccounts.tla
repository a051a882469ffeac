----------------------------- MODULE MCAccounts -----------------------------
(* Accounts with small sets and a provider's claims.                       *)
EXTENDS Accounts, TLC

CONSTANTS ada, alan,      \* emails
          google, corp    \* identities: a subject at one issuer or another

\* One person may come with either identity, and one identity with either
\* email.
CrossedClaims == {<<google, ada>>, <<corp, ada>>, <<google, alan>>}

\* One person only.
OneClaim == {<<google, ada>>}

\* One email, vouched for under two identities.
SharedEmail == {<<google, ada>>, <<corp, ada>>}

\* Ids are interchangeable, and so are requests that may do the same.
AccountsSymmetry == Permutations(Ids) \cup Permutations(Erasers)
                      \cup Permutations(Requests \ Erasers)
=============================================================================
