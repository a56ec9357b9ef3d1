------------------------------ MODULE LuciForm ------------------------------
(***************************************************************************)
(* How the settings pages of the repository use LuCI's form library: a     *)
(* page is a table of fields, and LuCI (which is not part of the           *)
(* repository) shows, hides, checks and stores them.                       *)
(*                                                                         *)
(* A table maps an option to a field: vals are the values that the user    *)
(* can leave in it, ok those its datatype or validate function accepts,    *)
(* def what is shown when the option is not set, must its rmempty = false, *)
(* deps its depends() alternatives, each an assignment of other options.   *)
(* kind is "flag", "value", "file" (a text box whose write() puts the text *)
(* into a file), "rules" (one whose remove() empties the file, too) or     *)
(* "button".  Texts are represented by one valid ("good") and, where       *)
(* something checks them, one invalid ("bad") representative.              *)
(***************************************************************************)
EXTENDS Integers, FiniteSets, Sequences, TLC

Unset == "(unset)"

Field(kind, vals, ok, def) ==
  [kind |-> kind, vals |-> vals, ok |-> ok, def |-> def, must |-> FALSE, deps |-> {}]
Flag(def) == Field("flag", {"0", "1"}, {"0", "1"}, def)
Truth(def) == Field("flag", {"false", "true"}, {"false", "true"}, def)
Choice(vals, def) == Field("value", vals, vals, def)
Text(def) == Field("value", {"", "good", def}, {"", "good", def}, def)
Checked(def) == Field("value", {"", "good", "bad", def}, {"", "good", def}, def)
Among(vals, bad, def) == Field("value", vals \cup bad, vals, def)
TextFile == Field("file", {"", "good"}, {"", "good"}, "")
(* An option with retain: hiding it does not remove it                     *)
Kept(f) == [f EXCEPT !.kind = "kept"]
RulesFile == Field("rules", {"", "good"}, {"", "good"}, "")
Button == Field("button", {""}, {""}, "")
Must(f) == [f EXCEPT !.must = TRUE]
When(deps, f) == [f EXCEPT !.deps = deps]

(* Fields that depend on the same alternatives                             *)
AllWhen(deps, table) == [o \in DOMAIN table |-> When(deps, table[o])]

----------------------------------------------------------------------------
(* What the page shows for a stored configuration                          *)
Shown(form, uci) ==
  [o \in DOMAIN form |-> IF uci[o] = Unset THEN form[o].def ELSE uci[o]]

(* The fields whose dependencies hold; a hidden field satisfies nothing    *)
Active(form, ui) ==
  LET active[o \in DOMAIN form] ==
        \/ form[o].deps = {}
        \/ \E d \in form[o].deps :
             \A n \in DOMAIN d : n \in DOMAIN form /\ active[n] /\ ui[n] = d[n]
  IN {o \in DOMAIN form : active[o]}

Accepted(form, ui) ==
  \A o \in Active(form, ui) :
    /\ ui[o] \in form[o].ok
    /\ form[o].must => ui[o] # ""

(* Saving removes a hidden or empty option and a flag at its default; a    *)
(* file-backed text is written when it is not empty and never removed      *)
Stored(form, uci, ui) ==
  LET active == Active(form, ui) IN
  [o \in DOMAIN form |->
     IF form[o].kind = "button" THEN Unset
     ELSE IF form[o].kind = "file" THEN (IF o \in active /\ ui[o] # "" THEN ui[o] ELSE uci[o])
     ELSE IF form[o].kind = "rules" THEN (IF o \in active THEN ui[o] ELSE uci[o])
     ELSE IF o \notin active THEN (IF form[o].kind = "kept" THEN uci[o] ELSE Unset)
     ELSE IF form[o].kind = "flag" /\ ~form[o].must /\ ui[o] = form[o].def THEN Unset
     ELSE IF ui[o] = "" THEN Unset ELSE ui[o]]
=============================================================================
