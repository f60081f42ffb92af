-------------------------------- MODULE Forms --------------------------------
(***************************************************************************)
(* The forms of the web front end that save the settings: alerts.js,       *)
(* profiles.js and the schedule of backup.js (backend/web/static/js), and  *)
(* what ProfileSelector (app.js) remembers of the settings.                *)
(*                                                                         *)
(* A request to save carries the whole configuration (module Settings).    *)
(* The alerts and the profiles put their own section into the              *)
(* configuration they have loaded, whenever that was; the schedule loads   *)
(* it anew when its button is pressed, and only then looks at its inputs.  *)
(* An input that is empty or not on the screen leaves the profiles what    *)
(* they had loaded and gives the other two a default.                      *)
(*                                                                         *)
(* A request and its answer are moments of their own, and so is what the   *)
(* server does in between: it hands out or stores the settings.  Of each   *)
(* section the model keeps one value, the one of any of its inputs.  The   *)
(* other browsers are one action.                                          *)
(***************************************************************************)
EXTENDS Naturals, FiniteSets

CONSTANTS
  Value,      \* the values of a section
  Blank,      \* the value of an empty input, or of a number that is 0
  Default,    \* [Section -> Value]: what a form shows, and all but the profiles
              \* save, for Blank; Blank itself where that is what they do
  Absent,     \* no inputs on the screen
  NoConfig,   \* null
  MaxOpens,   \* the times a form is opened
  MaxSaves,   \* the configurations ever saved
  MaxGets,    \* the requests for the settings under way at once
  MaxPosts    \* the requests to save under way at once

Form    == {"alerts", "profiles", "schedule"}
Section == {"alerts", "connections", "backup"}

ASSUME FormsAssumption ==
  /\ Blank \in Value /\ Absent \notin Value /\ Default \in [Section -> Value]
  /\ {MaxOpens, MaxSaves, MaxGets, MaxPosts} \subseteq Nat

Own     == [alerts |-> "alerts", profiles |-> "connections", schedule |-> "backup"]

VARIABLES
  server,    \* the stored settings
  saved,     \* how often they have been saved
  screen,    \* the form on the screen
  opens,     \* how often a form has been opened
  inputs,    \* what its inputs hold
  _config,   \* what the pages of the alerts and the profiles have loaded
  gets,      \* the requests for the settings under way
  posts,     \* the requests to save under way
  _settings, \* ProfileSelector._settings, of which the profiles matter
  fresh,     \* history: the forms since whose loading nothing was saved
  behind     \* history: profiles were saved by another form or browser or without
             \* an answer, or were on their way to _settings when it was reset

formsVars == <<server, saved, screen, opens, inputs, _config, gets, posts, _settings, fresh, behind>>

Config == [Section -> Value]

\* why: which form is to be loaded, ProfileSelector, or the button "save" of
\* the schedule.  el: the page has not changed since.  conf: what the server has
\* handed out, NoConfig before; fresh: and nothing was saved since.
Get == [why : Form \cup {"selector", "save"}, el : BOOLEAN, conf : Config \cup {NoConfig}, fresh : BOOLEAN,
        pressed : Value \cup {Absent}, same : BOOLEAN]

\* A request to save conf, stored or not yet, whose own section was meant to be
\* what the inputs held when the button was pressed; late: they had changed or
\* gone when they were looked at.  fresh: nothing was saved since conf was loaded.
Posted == [form : Form, conf : Config, pressed : Value \cup {Absent}, late : BOOLEAN, fresh : BOOLEAN,
           stored : BOOLEAN]

FormsTypeOK ==
  /\ server \in Config /\ saved \in 0 .. MaxSaves
  /\ screen \in Form \cup {"none"} /\ opens \in 0 .. MaxOpens /\ inputs \in Value \cup {Absent}
  /\ _config \in [{"alerts", "profiles"} -> Config \cup {NoConfig}]
  /\ gets \subseteq Get /\ posts \subseteq Posted
  /\ _settings \in Value \cup {NoConfig}
  /\ fresh \subseteq Form /\ behind \in BOOLEAN

FormsInit ==
  /\ \E v \in Value : server = [s \in Section |-> v]
  /\ saved = 0 /\ screen = "none" /\ opens = 0 /\ inputs = Absent
  /\ _config = [f \in {"alerts", "profiles"} |-> NoConfig]
  /\ gets = {} /\ posts = {} /\ _settings = NoConfig
  /\ fresh = {} /\ behind = FALSE

-----------------------------------------------------------------------------
(* Loading *)

Ask(others, why) ==
  /\ Cardinality({g \in others : (g.why = "selector") = (why = "selector")}) < MaxGets
  /\ gets' = others \cup {[why |-> why, el |-> TRUE, conf |-> NoConfig, fresh |-> FALSE,
                           pressed |-> IF why = "save" THEN inputs ELSE Absent, same |-> TRUE]}

\* GET /settings
Served(g) ==
  /\ g.conf = NoConfig
  /\ gets' = (gets \ {g}) \cup {[g EXCEPT !.conf = server, !.fresh = TRUE]}
  /\ UNCHANGED <<server, saved, screen, opens, inputs, _config, posts, _settings, fresh, behind>>

\* The page changes, or what its inputs hold.
Detached == {[g EXCEPT !.el = FALSE, !.same = FALSE] : g \in gets}
Changed  == {[g EXCEPT !.same = FALSE] : g \in gets}

\* render, and the load it awaits.
OpenForm(f) ==
  /\ opens < MaxOpens /\ opens' = opens + 1
  /\ screen' = f /\ inputs' = Absent
  /\ Ask(Detached, f)
  /\ UNCHANGED <<server, saved, _config, posts, _settings, fresh, behind>>

LeaveForm ==
  /\ screen # "none"
  /\ screen' = "none" /\ inputs' = Absent /\ gets' = Detached
  /\ UNCHANGED <<server, saved, opens, _config, posts, _settings, fresh, behind>>

\* The inputs are filled; the profiles' only if their page is the one that asked.
Fill(g) ==
  LET v == g.conf[Own[g.why]]
  IN  IF screen = g.why /\ (g.why = "profiles" => g.el)
      THEN inputs' = (IF v = Blank THEN Default[Own[g.why]] ELSE v)
           /\ gets' = {[o EXCEPT !.same = FALSE] : o \in gets \ {g}}
      ELSE UNCHANGED inputs /\ gets' = gets \ {g}

\* Variant for checking the properties: what is loaded first is kept.
loadOnce(g) ==
  /\ g.why \in Form /\ g.conf # NoConfig
  /\ Fill(g)
  /\ _config' = IF g.why = "schedule" \/ _config[g.why] # NoConfig THEN _config
                ELSE [_config EXCEPT ![g.why] = g.conf]
  /\ fresh' = IF g.fresh THEN fresh \cup {g.why} ELSE fresh \ {g.why}
  /\ UNCHANGED <<server, saved, screen, opens, posts, _settings, behind>>

\* load of alerts.js and profiles.js, loadSchedule of backup.js
load(g) ==
  /\ g.why \in Form /\ g.conf # NoConfig
  /\ Fill(g)
  /\ _config' = IF g.why = "schedule" THEN _config ELSE [_config EXCEPT ![g.why] = g.conf]
  /\ fresh' = IF g.fresh THEN fresh \cup {g.why} ELSE fresh \ {g.why}
  /\ UNCHANGED <<server, saved, screen, opens, posts, _settings, behind>>

\* An error takes the inputs of the profiles away, and leaves the others.
loadFailed(g) ==
  /\ g.why \in Form
  /\ gets' = gets \ {g}
  /\ inputs' = IF g.why = "profiles" /\ g.el /\ screen = "profiles" THEN Absent ELSE inputs
  /\ UNCHANGED <<server, saved, screen, opens, _config, posts, _settings, fresh, behind>>

Type ==
  /\ inputs # Absent
  /\ \E v \in Value : v # inputs /\ inputs' = v
  /\ gets' = Changed
  /\ UNCHANGED <<server, saved, screen, opens, _config, posts, _settings, fresh, behind>>

-----------------------------------------------------------------------------
(* Saving *)

Post(form, conf, pressed, late, new) ==
  /\ Cardinality(posts) < MaxPosts
  /\ posts' = posts \cup {[form |-> form, conf |-> conf, pressed |-> pressed, late |-> late, fresh |-> new,
                            stored |-> FALSE]}

\* value || other: what becomes of an input that is empty or is not there.
Or(value, other) == IF value \in {Absent, Blank} THEN other ELSE value

\* AlertsPage.save
saveAlerts ==
  /\ screen = "alerts" /\ _config["alerts"] # NoConfig
  /\ _config' = [_config EXCEPT !["alerts"]["alerts"] = Or(inputs, Default["alerts"])]
  /\ Post("alerts", _config'["alerts"], inputs, FALSE, "alerts" \in fresh)
  /\ UNCHANGED <<server, saved, screen, opens, inputs, gets, _settings, fresh, behind>>

\* ProfilesPage.save
saveProfiles ==
  /\ screen = "profiles" /\ _config["profiles"] # NoConfig
  /\ LET conf == [_config["profiles"] EXCEPT !["connections"] = Or(inputs, @)]
     IN  Post("profiles", conf, inputs, FALSE, "profiles" \in fresh)
  /\ UNCHANGED <<server, saved, screen, opens, inputs, _config, gets, _settings, fresh, behind>>

\* The button is one of the inputs.
saveSchedule ==
  /\ screen = "schedule" /\ inputs # Absent
  /\ Ask(gets, "save")
  /\ UNCHANGED <<server, saved, screen, opens, inputs, _config, posts, _settings, fresh, behind>>

\* The settings are there, and the inputs, if they still are, as they are now.
saveScheduleGoesOn(g) ==
  /\ g.why = "save" /\ g.conf # NoConfig /\ gets' = gets \ {g}
  /\ LET now == IF screen = "schedule" THEN inputs ELSE Absent
     IN  Post("schedule", [g.conf EXCEPT !["backup"] = Or(now, Default["backup"])], g.pressed, ~g.same, g.fresh)
  /\ UNCHANGED <<server, saved, screen, opens, inputs, _config, _settings, fresh, behind>>

saveScheduleFails(g) ==
  /\ g.why = "save" /\ gets' = gets \ {g}
  /\ UNCHANGED <<server, saved, screen, opens, inputs, _config, posts, _settings, fresh, behind>>

\* conf is stored; what was loaded or is on its way, and the other requests to
\* save, are no longer fresh.
Store(conf, others) ==
  /\ saved < MaxSaves /\ saved' = saved + 1
  /\ server' = conf
  /\ fresh' = {}
  /\ gets' = {[g EXCEPT !.fresh = FALSE] : g \in gets}
  /\ posts' = {[o EXCEPT !.fresh = FALSE] : o \in others}

\* POST /settings.  The profiles may be other ones though the form is another.
Stored(p) ==
  /\ ~p.stored
  /\ Store(p.conf, (posts \ {p}) \cup {[p EXCEPT !.stored = TRUE]})
  /\ behind' = (behind \/ (p.form # "profiles" /\ p.conf["connections"] # server["connections"]))
  /\ UNCHANGED <<screen, opens, inputs, _config, _settings>>

\* The form loads the settings again; the profiles not off their page.
Reload(form) ==
  IF form = "profiles" /\ screen # "profiles" THEN UNCHANGED gets ELSE Ask(gets, form)

\* Settings are on their way to the selector that were handed out before
\* something was saved.
Outdated == \E g \in gets : g.why = "selector" /\ g.conf # NoConfig /\ ~g.fresh

\* Variant for checking the properties: the selector keeps what it has.
SavedNoReset(p) ==
  /\ p.stored /\ posts' = posts \ {p}
  /\ Reload(p.form)
  /\ behind' = IF p.form = "profiles" THEN Outdated ELSE behind
  /\ UNCHANGED <<server, saved, screen, opens, inputs, _config, _settings, fresh>>

\* The answer is there; the profiles reset the selector.
Saved(p) ==
  /\ p.stored /\ posts' = posts \ {p}
  /\ Reload(p.form)
  /\ _settings' = IF p.form = "profiles" THEN NoConfig ELSE _settings
  /\ behind' = IF p.form = "profiles" THEN Outdated ELSE behind
  /\ UNCHANGED <<server, saved, screen, opens, inputs, _config, fresh>>

\* Not stored, or stored without an answer.
SaveLost(p) ==
  /\ posts' = posts \ {p}
  /\ behind' = (behind \/ (p.stored /\ p.form = "profiles"))
  /\ UNCHANGED <<server, saved, screen, opens, inputs, _config, gets, _settings, fresh>>

\* Another browser saves one section.
SavedElsewhere ==
  /\ \E s \in Section, v \in Value : v # server[s] /\ Store([server EXCEPT ![s] = v], posts)
  /\ behind' = TRUE
  /\ UNCHANGED <<screen, opens, inputs, _config, _settings>>

-----------------------------------------------------------------------------
(* ProfileSelector *)

\* A page that needs a profile, when none was loaded; of several at once each
\* asks.
_loadSettings ==
  /\ _settings = NoConfig
  /\ Ask(gets, "selector")
  /\ behind' = Outdated
  /\ UNCHANGED <<server, saved, screen, opens, inputs, _config, posts, _settings, fresh>>

SettingsLoaded(g) ==
  /\ g.why = "selector" /\ gets' = gets \ {g}
  /\ \/ g.conf # NoConfig /\ _settings' = g.conf["connections"]
     \/ UNCHANGED _settings
  /\ UNCHANGED <<server, saved, screen, opens, inputs, _config, posts, fresh, behind>>

-----------------------------------------------------------------------------
FormsNext ==
  \/ \E f \in Form : OpenForm(f)
  \/ LeaveForm \/ Type \/ saveAlerts \/ saveProfiles \/ saveSchedule
  \/ \E g \in gets :
       \/ Served(g) \/ load(g) \/ loadFailed(g)
       \/ saveScheduleGoesOn(g) \/ saveScheduleFails(g) \/ SettingsLoaded(g)
  \/ \E p \in posts : Stored(p) \/ Saved(p) \/ SaveLost(p)
  \/ SavedElsewhere \/ _loadSettings

FormsSpec == FormsInit /\ [][FormsNext]_formsVars

-----------------------------------------------------------------------------
\* A form saves what its inputs held when its button was pressed.  Where they were
\* empty or not on the screen it saves the default, or leaves the profiles that are
\* stored unless something was saved since it loaded them.  Only the schedule looks
\* at its inputs later, and they may have changed by then.
SavesInputs ==
  \A p \in posts :
    LET kept == p.conf[Own[p.form]]
    IN  \/ kept = p.pressed
        \/ /\ p.pressed \in {Absent, Blank}
           /\ IF p.form = "profiles" THEN p.fresh => kept = server["connections"]
              ELSE kept = Default[Own[p.form]]
        \/ p.form = "schedule" /\ p.late

\* A form saves its own section and leaves the others alone, unless something
\* else was saved since it was loaded.
SavesOwnSection ==
  [][\A p \in posts :
       saved' > saved /\ p.fresh /\ [p EXCEPT !.fresh = FALSE] \notin posts' =>
         \A s \in Section \ {Own[p.form]} : server'[s] = server[s]]_formsVars

\* The profiles were stored, and their form does not know yet.
Unanswered == \E p \in posts : p.stored /\ p.form = "profiles"

\* The selector offers the profiles that are stored, unless their form waits for
\* its answer; or others saved them, or the answer was lost; or older ones were on
\* their way when the selector was reset.
SelectorIsCurrent == ~behind /\ ~Unanswered => _settings \in {server["connections"], NoConfig}

\* What is saved is what was typed, and what is offered is what was saved
\* (alerts.js, profiles.js, backup.js and ProfileSelector of app.js).
FormsExplained == SavesInputs /\ SelectorIsCurrent

(* What these rest on. *)

\* The schedule that is about to be saved is on the screen as it was, or is known
\* to have changed.
PressedInv ==
  \A g \in gets : g.why = "save" /\ g.same => screen = "schedule" /\ inputs # Absent /\ inputs = g.pressed

\* What counts as fresh is what the server has; the alerts put their own section
\* into what they have loaded.
GetsFresh == \A g \in gets : g.fresh => g.conf = server
LoadedFresh ==
  \A f \in fresh \ {"schedule"}, s \in Section :
    _config[f] # NoConfig /\ (s # Own[f] \/ f = "profiles") => _config[f][s] = server[s]
PostsFresh ==
  \A p \in posts, s \in Section : p.fresh => ~p.stored /\ (s # Own[p.form] => p.conf[s] = server[s])

\* The profiles on their way to the selector are those of the server.
SelectorInv ==
  ~behind /\ ~Unanswered =>
    \A g \in gets : g.why = "selector" /\ g.conf # NoConfig => g.conf["connections"] = server["connections"]

FormsInductive ==
  /\ FormsTypeOK /\ FormsExplained
  /\ PressedInv /\ SelectorInv /\ GetsFresh /\ LoadedFresh /\ PostsFresh
=============================================================================
