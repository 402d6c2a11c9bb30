------------------------------- MODULE Config -------------------------------
(***************************************************************************)
(* The configuration file: config_load in src/config.c, what main.c makes  *)
(* of it at the start, and the reload on SIGHUP (main.c, strategy.c).      *)
(*                                                                         *)
(* A line is a section header, a key with its value, or one that is        *)
(* ignored: blank, a comment, a "[" without "]", text without "=".  A      *)
(* value is its text and whether a comment follows it on the line, which   *)
(* config_load keeps: atoi and atof stop before it, strcmp does not.       *)
(***************************************************************************)
EXTENDS Integers, Sequences, FiniteSets

CONSTANTS
    Line,           \* the lines that files are made of
    PathSection,    \* the section names that start with "path."
    Number,         \* atoi: the integer at the start of a text, 0 if there is none
    ValidKey,       \* the texts that crypto_parse_key accepts
    MaxPaths, MaxK, MaxWindow, MaxPayload, MaxRoutes,
    MaxLines,       \* bound on the lines of the first file
    MaxReloadLines  \* bound on the lines of the files that are loaded later

ASSUME FileAssumption ==
    /\ MaxPaths \in Nat /\ MaxRoutes \in Nat
    /\ {MaxK, MaxWindow, MaxPayload} \subseteq Nat \ {0}
    /\ \A l \in Line : l.kind \in {"header", "key", "ignored"}
    /\ PathSection \cap {"general", "coding", "strategy", "forward"} = {}

VARIABLES
    pc,         \* "read", "loaded", "run"; ended: "no file", "refused"
                \* (the key) or "no device" (TUN or sockets)
    file,       \* history: the lines of the file that were read
    new,        \* the struct gateway_config that config_load fills
    section,    \* the locals of config_load: the section and the path, or 0
    cur_path,
    started,    \* the event loop has started
    cfg         \* the configuration of main, and of strategy_ctx for the paths

vars == <<pc, file, new, section, cur_path, started, cfg>>

Empty == ""

Plain(t) == [text |-> t, comment |-> FALSE]

\* The keys of the fixed sections and their defaults.
Default ==
    [x \in {"mode", "tun_name", "tun_addr", "listen_port", "metrics_port",
            "log_level", "crypto_key"} |->
        Plain(CASE x = "mode" -> "tx" [] x = "listen_port" -> "7000"
                [] x = "metrics_port" -> "0" [] x = "log_level" -> "2" [] OTHER -> Empty)]

DefaultCoding ==
    [x \in {"k", "redundancy_ratio", "block_timeout_ms", "max_payload", "window_size"} |->
        Plain(CASE x = "k" -> "4" [] x = "redundancy_ratio" -> "1.5"
                [] x = "block_timeout_ms" -> "5" [] x = "max_payload" -> "1400"
                [] OTHER -> "8")]

DefaultStrategy ==
    [x \in {"type", "probe_interval_ms", "probe_loss_threshold", "ewma_alpha"} |->
        Plain(CASE x = "type" -> "fixed" [] x = "probe_interval_ms" -> "100"
                [] x = "probe_loss_threshold" -> "0.3" [] OTHER -> "0.2")]

DefaultSections ==
    [s \in {"general", "coding", "strategy", "forward"} |->
        CASE s = "general" -> Default [] s = "coding" -> DefaultCoding
          [] s = "strategy" -> DefaultStrategy
          [] OTHER -> [x \in {"ip_forward"} |-> Plain("false")]]

DefaultPath ==
    [x \in {"interface", "remote_ip", "remote_port", "weight", "enabled"} |->
        Plain(CASE x = "weight" -> "1.0" [] x = "enabled" -> "true" [] OTHER -> Empty)]

\* The values that a setting can have; atoi makes an integer of each.
Value ==
    {l.val : l \in {m \in Line : m.kind = "key"}} \cup {DefaultPath[x] : x \in DOMAIN DefaultPath}
    \cup UNION {{DefaultSections[s][x] : x \in DOMAIN DefaultSections[s]} :
                   s \in DOMAIN DefaultSections}

ASSUME NumberAssumption == \A v \in Value : Number[v.text] \in Int

Defaults == [set |-> DefaultSections, paths |-> << >>, routes |-> << >>]

Init ==
    /\ pc = "read"
    /\ file = << >> /\ new = Defaults /\ section = Empty /\ cur_path = 0
    /\ started = FALSE
    /\ cfg = Defaults

-----------------------------------------------------------------------------
(***************************************************************************)
(* config_load: one line.                                                  *)
(***************************************************************************)
\* Mutant: the keys of a path too many go to the path before it.
HeaderKeepsPath(s) ==
    /\ section' = s
    /\ IF s \in PathSection
       THEN IF Len(new.paths) < MaxPaths
            THEN /\ new' = [new EXCEPT !.paths = Append(@, [name |-> s, set |-> DefaultPath])]
                 /\ cur_path' = Len(new.paths) + 1
            ELSE UNCHANGED <<new, cur_path>>
       ELSE cur_path' = 0 /\ UNCHANGED new

\* A section header; paths beyond MAX_PATHS are not stored.
Header(s) ==
    /\ section' = s
    /\ IF s \in PathSection /\ Len(new.paths) < MaxPaths
       THEN /\ new' = [new EXCEPT !.paths = Append(@, [name |-> s, set |-> DefaultPath])]
            /\ cur_path' = Len(new.paths) + 1
       ELSE cur_path' = 0 /\ UNCHANGED new

\* Mutant: the array of routes may grow by one too many.
AddRouteLate(r, v) == IF Len(r) <= MaxRoutes THEN Append(r, v) ELSE r

AddRoute(r, v) == IF Len(r) < MaxRoutes THEN Append(r, v) ELSE r

\* What a key and its value do to the struct.
Assigned(c, key, val) ==
    CASE section \in DOMAIN c.set ->
            IF key \in DOMAIN c.set[section]
            THEN [c EXCEPT !.set[section][key] = val]
            ELSE IF section = "forward" /\ key = "route"
                 THEN [c EXCEPT !.routes = AddRoute(@, val)]
                 ELSE c
      [] section \notin DOMAIN c.set /\ cur_path # 0 /\ key \in DOMAIN DefaultPath ->
            [c EXCEPT !.paths[cur_path].set[key] = val]
      [] OTHER -> c

ReadLine(l) ==
    /\ pc = "read"
    /\ Len(file) < IF started THEN MaxReloadLines ELSE MaxLines
    /\ file' = Append(file, l)
    /\ CASE l.kind = "header"  -> Header(l.section)
         [] l.kind = "key"     -> /\ new' = Assigned(new, l.key, l.val)
                                  /\ UNCHANGED <<section, cur_path>>
         [] l.kind = "ignored" -> UNCHANGED <<new, section, cur_path>>
    /\ UNCHANGED <<pc, started, cfg>>

EndOfFile ==
    /\ pc = "read"
    /\ pc' = "loaded"
    /\ UNCHANGED <<file, new, section, cur_path, started, cfg>>

\* The file cannot be opened: the start fails, a reload is ignored.
OpenFails ==
    /\ pc = "read" /\ file = << >>
    /\ pc' = IF started THEN "run" ELSE "no file"
    /\ UNCHANGED <<file, new, section, cur_path, started, cfg>>

(***************************************************************************)
(* The clamps at the end of config_load.                                   *)
(***************************************************************************)
Clamp(x, hi) == IF x < 1 THEN 1 ELSE IF x > hi THEN hi ELSE x

k(c)           == Clamp(Number[c.set["coding"]["k"].text], MaxK)
window_size(c) == Clamp(Number[c.set["coding"]["window_size"].text], MaxWindow)
max_payload(c) == Clamp(Number[c.set["coding"]["max_payload"].text], MaxPayload)

-----------------------------------------------------------------------------
(***************************************************************************)
(* main.                                                                   *)
(***************************************************************************)
mode(c)  == c.set["general"]["mode"]
is_tx(c) == mode(c) \in {Plain("tx"), Plain("both")}
is_rx(c) == mode(c) \in {Plain("rx"), Plain("both")}

\* The buffer of the key ends after 64 characters, so a comment after a valid
\* key is cut off and one after an empty key is taken for the key.
crypto_key(c) == c.set["general"]["crypto_key"]
KeyRefused(c) == crypto_key(c) # Plain(Empty) /\ crypto_key(c).text \notin ValidKey

Done == file' = << >> /\ new' = Defaults /\ section' = Empty /\ cur_path' = 0

\* The start of the gateway, after the first config_load.
Start ==
    /\ pc = "loaded" /\ ~started
    /\ pc' \in IF KeyRefused(new) THEN {"refused"} ELSE {"run", "no device"}
    /\ started' = (pc' = "run")
    /\ cfg' = new
    /\ Done

\* SIGHUP: config_load runs on a struct of its own.
Hup ==
    /\ pc = "run"
    /\ pc' = "read"
    /\ Done
    /\ UNCHANGED <<started, cfg>>

\* What the event loop and strategy_reload take over from a new file.
Reloaded(s, x) ==
    \/ s = "coding" /\ x \in {"redundancy_ratio", "block_timeout_ms"}
    \/ s = "general" /\ x = "log_level"
    \/ s = "strategy"

\* Mutant: paths that the new file disables are not counted.
OverlaySkips(p, q, i) ==
    LET on == SelectSeq(q, LAMBDA x : x.set["enabled"] = Plain("true"))
    IN  IF i > Len(on) THEN p[i]
        ELSE [p[i] EXCEPT !.set["weight"] = on[i].set["weight"],
                          !.set["enabled"] = on[i].set["enabled"]]

\* strategy_reload: paths are matched by their place in the file.
Overlay(p, q, i) ==
    IF i > Len(q) THEN p[i]
    ELSE [p[i] EXCEPT !.set["weight"] = q[i].set["weight"],
                      !.set["enabled"] = q[i].set["enabled"]]

\* Mutant: the whole struct is taken over.
ReloadAll ==
    /\ pc = "loaded" /\ started
    /\ pc' = "run"
    /\ cfg' = new
    /\ Done
    /\ UNCHANGED started

Reload ==
    /\ pc = "loaded" /\ started
    /\ pc' = "run"
    /\ cfg' = [cfg EXCEPT
          !.set = [s \in DOMAIN @ |-> [x \in DOMAIN @[s] |->
                      IF Reloaded(s, x) THEN new.set[s][x] ELSE @[s][x]]],
          !.paths = [i \in DOMAIN @ |-> Overlay(@, new.paths, i)]]
    /\ Done
    /\ UNCHANGED started

Next == (\E l \in Line : ReadLine(l)) \/ EndOfFile \/ OpenFails \/ Start \/ Hup \/ Reload

Spec == Init /\ [][Next]_vars

-----------------------------------------------------------------------------
(***************************************************************************)
(* Properties.                                                             *)
(***************************************************************************)

\* The arrays of the struct are never filled beyond their ends (MAX_PATHS
\* paths, 8 routes), cur_path points at a stored path or nowhere, and whatever
\* a file says, k, window_size and max_payload are within the bounds of the
\* arrays they index ("clamp values that would cause UB downstream").
TypeOK ==
    /\ pc \in {"read", "loaded", "run", "no file", "refused", "no device"}
    /\ \A c \in {new, cfg} :
          /\ Len(c.paths) <= MaxPaths /\ Len(c.routes) <= MaxRoutes
          /\ k(c) \in 1..MaxK
          /\ window_size(c) \in 1..MaxWindow
          /\ max_payload(c) \in 1..MaxPayload
    /\ cur_path \in 0..Len(new.paths)
    /\ started \in BOOLEAN

\* What a file says: line i is under the header at line HeaderOf(i).
IsHeader(i) == file[i].kind = "header"
HeaderOf(i) ==
    LET before == {h \in 1..i : IsHeader(h)}
    IN  IF before = {} THEN 0 ELSE CHOOSE h \in before : \A g \in before : g <= h
Under(i)    == IF HeaderOf(i) = 0 THEN Empty ELSE file[HeaderOf(i)].section

\* The value of the last of some lines, or the default.
LastOf(lines, default) ==
    IF lines = {} THEN default
    ELSE file[CHOOSE i \in lines : \A j \in lines : j <= i].val

KeyLines(x)     == {i \in DOMAIN file : file[i].kind = "key" /\ file[i].key = x}
PathHeaders     == {i \in DOMAIN file : IsHeader(i) /\ file[i].section \in PathSection}
PathHeader(n)   == CHOOSE h \in PathHeaders : Cardinality({g \in PathHeaders : g <= h}) = n
StoredPaths     == IF Cardinality(PathHeaders) < MaxPaths THEN Cardinality(PathHeaders)
                   ELSE MaxPaths

\* config_load reads every file as its lines say: a key counts under the last
\* header before it, the last value of a key wins, what is not given has its
\* default, and the keys of a path beyond MAX_PATHS change no other path.
ParsedAsWritten ==
    pc = "loaded" =>
        /\ \A s \in DOMAIN DefaultSections : \A x \in DOMAIN DefaultSections[s] :
              new.set[s][x] = LastOf({i \in KeyLines(x) : Under(i) = s}, DefaultSections[s][x])
        /\ Len(new.paths) = StoredPaths
        /\ \A n \in 1..StoredPaths :
              /\ new.paths[n].name = file[PathHeader(n)].section
              /\ \A x \in DOMAIN DefaultPath :
                    new.paths[n].set[x] =
                        LastOf({i \in KeyLines(x) : HeaderOf(i) = PathHeader(n)}, DefaultPath[x])

\* A reload changes neither the code (k, window size), nor the role and key of
\* the gateway, nor the number and the names of its paths: blocks on their way
\* and the tables of the transport stay valid.
StartupSettingsKept ==
    [][started =>
          /\ k(cfg') = k(cfg) /\ window_size(cfg') = window_size(cfg)
          /\ mode(cfg') = mode(cfg) /\ crypto_key(cfg') = crypto_key(cfg)
          /\ Len(cfg'.paths) = Len(cfg.paths)
          /\ \A i \in DOMAIN cfg.paths : cfg'.paths[i].name = cfg.paths[i].name]_vars

\* A reload gives path i of the running gateway the weight and enabled that the
\* new file says under its i-th path header, the default for what it does not
\* say there, and keeps them when the file has fewer paths: no other section,
\* disabled paths and paths beyond MAX_PATHS among them, counts for it.
ReloadTakesSectionAtPlace ==
    [][started /\ pc = "loaded" =>
       \A i \in DOMAIN cfg.paths : \A x \in {"weight", "enabled"} :
          cfg'.paths[i].set[x] =
              IF i > StoredPaths THEN cfg.paths[i].set[x]
              ELSE LastOf({l \in KeyLines(x) : HeaderOf(l) = PathHeader(i)}, DefaultPath[x])]_vars

\* README, sample configuration: "mode = tx               # tx | rx | both"
\* and "crypto_key =             # 64 hex chars for XOR obfuscation (empty =
\* disabled)".  A gateway takes the role of its mode and an empty key is no key.
CommentsIgnored ==
    /\ pc = "run" => /\ mode(cfg).text \in {"tx", "both"} => is_tx(cfg)
                     /\ mode(cfg).text \in {"rx", "both"} => is_rx(cfg)
    /\ pc = "refused" => crypto_key(cfg).text # Empty
=============================================================================
