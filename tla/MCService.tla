----------------------------- MODULE MCService ------------------------------
(* Instances of Service for TLC. *)
EXTENDS Service, TLC

CONSTANTS p1, p2, c1, c2, me, you

OwnerOf == c1 :> me @@ c2 :> you
Start(v, m, w) == [ver |-> v, mode |-> m, pass |-> w, env |-> FALSE]
Usual == Start(2, "serve", "real")
Racing == {Usual, Start(1, "both", "real"), Start(2, "both", "real")}
Alone == {Start(1, "migrate", "real"), Start(2, "plan", "none"), Start(2, "serve", "placeholder"), [Usual EXCEPT !.env = TRUE]}
AllStarts == Racing \cup Alone
Published == {[user |-> me, channels |-> {"all"}]}

\* Each kind of setting once in the environment; Max refuses base 2.
OneEnv == [f \in AllFields |-> CASE f = "service" -> 0 [] f = "useProxy" -> 0 [] OTHER -> 1]
Form(b, vals) == [bridge |-> b, values |-> vals]
SomeForms ==
  { Form("telegram", [service |-> 2, useProxy |-> 0, timeout |-> -1, retry |-> 0, pages |-> -1]),
    Form("max", [base |-> 2, limit |-> 2, private |-> 1]),
    Form("max", [base |-> 0, limit |-> -1, private |-> 0]),
    Form("vk", [token |-> 0]),
    Form("rutube", [url |-> 2]) }

Scene == [parts |-> {"boot"}, procs |-> Procs, starts |-> Racing, max |-> MaxStarts, schema |-> 0..1, forms |-> {}]
Booted == [Scene EXCEPT !.starts = {Usual}, !.schema = {2}]
AlertScene == [Booted EXCEPT !.parts = {"alerts"}, !.procs = {p1}, !.max = 2]
FormScene == [Booted EXCEPT !.parts = {"bridges"}, !.procs = {p1}, !.max = 2, !.forms = SomeForms]
AllScenes ==
  { Scene,
    [Scene EXCEPT !.procs = {p1}, !.starts = AllStarts, !.max = 2],
    AlertScene,
    [Booted EXCEPT !.parts = {"hub"}, !.procs = {p1}, !.max = 1],
    FormScene,
    [Booted EXCEPT !.parts = {"bridges"}, !.max = 2, !.forms = {Form("rutube", [url |-> 2])}] }
=============================================================================
