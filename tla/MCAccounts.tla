----------------------------- MODULE MCAccounts -----------------------------
(* Instances of Accounts for TLC: what each of four requests asks for. *)
EXTENDS Accounts, TLC

CONSTANTS r1, r2, r3, r4

Admin == "admin"
New == "new"
MCEmails == {Admin, New}
MCStored == (Admin :> [pw |-> "old", role |-> "Admin", tenant |-> Admin]) @@ (New :> NoUser)
MCCountry == ("tehran" :> "IR") @@ ("mashhad" :> "IR") @@ ("berlin" :> "DE")
MCFar == {<<"tehran", "mashhad">>, <<"mashhad", "tehran">>, <<"tehran", "berlin">>, <<"berlin", "tehran">>}

Register(e, pw, company) == [kind |-> "register", email |-> e, pw |-> pw, company |-> company]
Staff(e, pw, tid) == [kind |-> "staff", email |-> e, pw |-> pw, by |-> Admin, tid |-> tid]
Login(e, pw, ua, ip, place) ==
    [kind |-> "login", email |-> e, pw |-> pw, ua |-> ua, ip |-> ip, place |-> place]
Forgot(e) == [kind |-> "forgot", email |-> e]
Reset(e, pw) == [kind |-> "reset", email |-> e, pw |-> pw]

Four(a, b, c, d) == (r1 :> a) @@ (r2 :> b) @@ (r3 :> c) @@ (r4 :> d)

MCScenarios ==
    { \* the race for one new e-mail
      Four(Register(New, "p1", TRUE), Register(New, "p2", TRUE), Staff(New, "p3", Admin), Forgot(New)),
      \* a candidate, and a token of another tenant
      Four(Register(New, "p1", FALSE), Register(New, "p2", FALSE), Staff(New, "p3", New), Forgot(New)),
      \* codes and resets
      Four(Forgot(Admin), Forgot(Admin), Reset(Admin, "p1"), Reset(Admin, "p2")),
      Four(Forgot(Admin), Reset(New, "p1"), Reset(Admin, "p2"), Login(Admin, "old", "ff", "a", "tehran")),
      \* three devices of one account
      Four(Login(Admin, "old", "ff", "a", "tehran"), Login(Admin, "old", "ff", "b", "berlin"),
           Login(Admin, "old", "cr", "a", "mashhad"), Login(Admin, "bad", "ff", "a", NoPlace)),
      Four(Login(Admin, "old", "ff", "a", NoPlace), Login(Admin, "old", "cr", "a", "tehran"),
           Login(Admin, "old", "ff", "a", "tehran"), Login(New, "old", "ff", "a", NoPlace)) }
=============================================================================
