---------------------------- MODULE ConfigProofs ----------------------------
(***************************************************************************)
(* Proofs about Config for files of any lines and any length, any number   *)
(* of paths and routes, and any number of reloads.                         *)
(***************************************************************************)
EXTENDS Config, WellFoundedInduction, FiniteSetTheorems, SequenceTheorems, TLAPS

Sections == DOMAIN DefaultSections
PathKeys == DOMAIN DefaultPath

PathType == [name : PathSection, set : [PathKeys -> Value]]

\* A struct gateway_config: every key of every section has a value, and the
\* arrays hold no more than they can.
IsConfig(c) ==
    /\ c = [set |-> c.set, paths |-> c.paths, routes |-> c.routes]
    /\ c.set = [s \in Sections |-> c.set[s]]
    /\ \A s \in Sections : c.set[s] \in [DOMAIN DefaultSections[s] -> Value]
    /\ c.paths \in Seq(PathType) /\ Len(c.paths) <= MaxPaths
    /\ c.routes \in Seq(Value) /\ Len(c.routes) <= MaxRoutes

TypeInv ==
    /\ pc \in {"read", "loaded", "run", "no file", "refused", "no device"}
    /\ started \in BOOLEAN
    /\ file \in Seq(Line)
    /\ IsConfig(new) /\ IsConfig(cfg)
    /\ cur_path \in 0..Len(new.paths)

\* The sections of a file and the keys of each.
LEMMA SectionFacts ==
    /\ Sections = {"general", "coding", "strategy", "forward"}
    /\ DefaultSections["general"] = Default
    /\ DefaultSections["coding"] = DefaultCoding
    /\ DefaultSections["strategy"] = DefaultStrategy
    /\ "" \notin Sections /\ Sections \cap PathSection = {}
<1>1. Sections = {"general", "coding", "strategy", "forward"}
  BY DEF Sections, DefaultSections
<1>2. /\ DefaultSections["general"] = Default
      /\ DefaultSections["coding"] = DefaultCoding
      /\ DefaultSections["strategy"] = DefaultStrategy
  BY DEF DefaultSections
<1> QED BY <1>1, <1>2, FileAssumption

\* The defaults are a configuration.
LEMMA DefaultsType == IsConfig(Defaults)
<1>1. /\ Defaults.set = DefaultSections /\ Defaults.paths = << >> /\ Defaults.routes = << >>
      /\ Defaults = [set |-> Defaults.set, paths |-> Defaults.paths, routes |-> Defaults.routes]
  BY DEF Defaults
<1>2. DefaultSections = [s \in Sections |-> DefaultSections[s]]
  BY DEF Sections, DefaultSections
<1>3. ASSUME NEW s \in Sections
      PROVE  DefaultSections[s] \in [DOMAIN DefaultSections[s] -> Value]
  <2>1. DefaultSections[s] = [x \in DOMAIN DefaultSections[s] |-> DefaultSections[s][x]]
    BY SectionFacts DEF DefaultSections, Default, DefaultCoding, DefaultStrategy
  <2>2. \A x \in DOMAIN DefaultSections[s] : DefaultSections[s][x] \in Value
    BY DEF Value, Sections
  <2> QED BY <2>1, <2>2
<1>4. \A S : << >> \in Seq(S)
  OBVIOUS
<1>5. Len(<< >>) = 0
  OBVIOUS
<1> QED BY <1>1, <1>2, <1>3, <1>4, <1>5, FileAssumption DEF IsConfig

\* A new path has the defaults of a path.
LEMMA DefaultPathType == DefaultPath \in [PathKeys -> Value]
BY DEF DefaultPath, PathKeys, Value

\* The ways in which a line changes a struct.
PutKey(c, s, x, v)     == [c EXCEPT !.set[s][x] = v]
PutPathKey(c, n, x, v) == [c EXCEPT !.paths[n].set[x] = v]
PutPath(c, s)  == [c EXCEPT !.paths = Append(@, [name |-> s, set |-> DefaultPath])]
PutRoute(c, v) == [c EXCEPT !.routes = AddRoute(@, v)]

\* A key of a fixed section, a route, a key of the current path, or nothing:
\* the four things that a key and its value do to the struct.
LEMMA AssignedCases ==
    ASSUME NEW c, NEW key, NEW val
    PROVE  \/ /\ section \in DOMAIN c.set /\ key \in DOMAIN c.set[section]
              /\ Assigned(c, key, val) = PutKey(c, section, key, val)
           \/ /\ section \in DOMAIN c.set /\ key \notin DOMAIN c.set[section]
              /\ Assigned(c, key, val) \in {c, PutRoute(c, val)}
           \/ /\ section \notin DOMAIN c.set /\ cur_path # 0 /\ key \in PathKeys
              /\ Assigned(c, key, val) = PutPathKey(c, cur_path, key, val)
           \/ /\ section \notin DOMAIN c.set /\ (cur_path = 0 \/ key \notin PathKeys)
              /\ Assigned(c, key, val) = c
BY DEF Assigned, PathKeys, PutKey, PutPathKey, PutRoute

-----------------------------------------------------------------------------
(***************************************************************************)
(* Types.                                                                  *)
(***************************************************************************)
\* A key of a fixed section is overwritten, no other.
LEMMA SetKey ==
    ASSUME NEW c, IsConfig(c), NEW s \in Sections, NEW key \in DOMAIN DefaultSections[s],
           NEW val \in Value,
           NEW e, e = PutKey(c, s, key, val)
    PROVE  /\ IsConfig(e) /\ e.paths = c.paths /\ e.routes = c.routes
           /\ \A t \in Sections : \A x \in DOMAIN DefaultSections[t] :
                 e.set[t][x] = IF t = s /\ x = key THEN val ELSE c.set[t][x]
<1>1. e.paths = c.paths /\ e.routes = c.routes
      /\ e.set = [c.set EXCEPT ![s] = [c.set[s] EXCEPT ![key] = val]]
      /\ e = [set |-> e.set, paths |-> e.paths, routes |-> e.routes]
  BY DEF IsConfig, PutKey
<1>2. /\ c.set = [t \in Sections |-> c.set[t]]
      /\ \A t \in Sections : c.set[t] = [x \in DOMAIN DefaultSections[t] |-> c.set[t][x]]
  BY DEF IsConfig
<1>3. \A t \in Sections :
        e.set[t] = [x \in DOMAIN DefaultSections[t] |->
                       IF t = s /\ x = key THEN val ELSE c.set[t][x]]
  BY <1>1, <1>2
<1>4. e.set = [t \in Sections |-> e.set[t]]
  BY <1>1, <1>2
<1>5. ASSUME NEW t \in Sections
      PROVE  e.set[t] \in [DOMAIN DefaultSections[t] -> Value]
  <2>1. c.set[t] \in [DOMAIN DefaultSections[t] -> Value]
    BY DEF IsConfig
  <2>2. e.set[t] = [x \in DOMAIN DefaultSections[t] |->
                       IF t = s /\ x = key THEN val ELSE c.set[t][x]]
    BY <1>3
  <2>3. \A x \in DOMAIN DefaultSections[t] : c.set[t][x] \in Value
    BY <2>1
  <2> QED BY <2>2, <2>3
<1>6. IsConfig(e)
  BY <1>1, <1>4, <1>5 DEF IsConfig
<1>7. \A t \in Sections : \A x \in DOMAIN DefaultSections[t] :
        e.set[t][x] = IF t = s /\ x = key THEN val ELSE c.set[t][x]
  BY <1>3
<1> QED BY <1>1, <1>6, <1>7, Zenon

\* A key of a path is overwritten, and no other of that or another path.
LEMMA SetPathKey ==
    ASSUME NEW c, IsConfig(c), NEW n \in 1..Len(c.paths), NEW key \in PathKeys, NEW val \in Value,
           NEW e, e = PutPathKey(c, n, key, val)
    PROVE  /\ IsConfig(e) /\ e.set = c.set /\ e.routes = c.routes
           /\ Len(e.paths) = Len(c.paths)
           /\ \A m \in 1..Len(c.paths) :
                 /\ e.paths[m].name = c.paths[m].name
                 /\ \A x \in PathKeys :
                       e.paths[m].set[x] = IF m = n /\ x = key THEN val ELSE c.paths[m].set[x]
<1> DEFINE p == [c.paths[n] EXCEPT !.set = [@ EXCEPT ![key] = val]]
<1>1. /\ e.set = c.set /\ e.routes = c.routes /\ e.paths = [c.paths EXCEPT ![n] = p]
      /\ e = [set |-> e.set, paths |-> e.paths, routes |-> e.routes]
  BY DEF IsConfig, PutPathKey
<1>2. c.paths \in Seq(PathType) /\ c.paths[n] \in PathType
  BY DEF IsConfig
<1>3. /\ p \in PathType /\ p.name = c.paths[n].name
      /\ \A x \in PathKeys : p.set[x] = IF x = key THEN val ELSE c.paths[n].set[x]
  BY <1>2 DEF PathType
<1> HIDE DEF p
<1>4. /\ e.paths \in Seq(PathType) /\ Len(e.paths) = Len(c.paths)
      /\ \A m \in 1..Len(c.paths) : e.paths[m] = IF m = n THEN p ELSE c.paths[m]
  <2>1. /\ [c.paths EXCEPT ![n] = p] \in Seq(PathType)
        /\ Len([c.paths EXCEPT ![n] = p]) = Len(c.paths)
        /\ \A m \in 1..Len(c.paths) :
              [c.paths EXCEPT ![n] = p][m] = IF m = n THEN p ELSE c.paths[m]
    <3>1. ASSUME NEW ps \in Seq(PathType), NEW i \in 1..Len(ps), NEW e1 \in PathType
          PROVE  /\ [ps EXCEPT ![i] = e1] \in Seq(PathType)
                 /\ Len([ps EXCEPT ![i] = e1]) = Len(ps)
                 /\ \A m \in 1..Len(ps) : [ps EXCEPT ![i] = e1][m] = IF m = i THEN e1 ELSE ps[m]
      BY ExceptSeq
    <3> QED BY <1>2, <1>3, <3>1
  <2> QED BY <1>1, <2>1, Zenon
<1>5. IsConfig(e)
  BY <1>1, <1>4 DEF IsConfig
<1>6. ASSUME NEW m \in 1..Len(c.paths)
      PROVE  /\ e.paths[m].name = c.paths[m].name
             /\ \A x \in PathKeys :
                   e.paths[m].set[x] = IF m = n /\ x = key THEN val ELSE c.paths[m].set[x]
  <2>1. CASE m = n
    BY <1>3, <1>4, <2>1, Zenon
  <2>2. CASE m # n
    BY <1>4, <2>2
  <2> QED BY <2>1, <2>2
<1> QED BY <1>1, <1>4, <1>5, <1>6, Zenon

\* A path is appended with its defaults, if there is room.
LEMMA AddPath ==
    ASSUME NEW c, IsConfig(c), NEW s \in PathSection, Len(c.paths) < MaxPaths,
           NEW e, e = PutPath(c, s)
    PROVE  /\ IsConfig(e) /\ e.set = c.set /\ e.routes = c.routes
           /\ Len(e.paths) = Len(c.paths) + 1
           /\ \A m \in 1..Len(c.paths) : e.paths[m] = c.paths[m]
           /\ e.paths[Len(c.paths) + 1] = [name |-> s, set |-> DefaultPath]
<1> DEFINE p == [name |-> s, set |-> DefaultPath]
<1>1. /\ e.set = c.set /\ e.routes = c.routes /\ e.paths = Append(c.paths, p)
      /\ e = [set |-> e.set, paths |-> e.paths, routes |-> e.routes]
  BY DEF IsConfig, PutPath
<1>2. p \in PathType
  BY DefaultPathType DEF PathType
<1> HIDE DEF p
<1>3. c.paths \in Seq(PathType)
  BY DEF IsConfig
<1>4. /\ e.paths \in Seq(PathType) /\ Len(e.paths) = Len(c.paths) + 1
      /\ \A m \in 1..Len(c.paths) : e.paths[m] = c.paths[m]
      /\ e.paths[Len(c.paths) + 1] = p
  BY <1>1, <1>2, <1>3, AppendProperties
<1>5. IsConfig(e)
  <2>1. Len(e.paths) <= MaxPaths
    BY <1>3, <1>4, FileAssumption
  <2> QED BY <1>1, <1>4, <2>1 DEF IsConfig
<1> QED BY <1>1, <1>4, <1>5 DEF p

\* A route is appended, if there is room.
LEMMA AddRouteType ==
    ASSUME NEW c, IsConfig(c), NEW val \in Value,
           NEW e, e = PutRoute(c, val)
    PROVE  IsConfig(e) /\ e.set = c.set /\ e.paths = c.paths
<1>1. /\ e.set = c.set /\ e.paths = c.paths /\ e.routes = AddRoute(c.routes, val)
      /\ e = [set |-> e.set, paths |-> e.paths, routes |-> e.routes]
  BY DEF IsConfig, PutRoute
<1>2. c.routes \in Seq(Value) /\ Len(c.routes) <= MaxRoutes /\ Len(c.routes) \in Nat
  BY DEF IsConfig
<1>3. e.routes \in Seq(Value) /\ Len(e.routes) <= MaxRoutes
  BY <1>1, <1>2, FileAssumption DEF AddRoute
<1> QED BY <1>1, <1>3 DEF IsConfig

\* A header starts a path, or leaves the keys that follow to no path.
LEMMA HeaderCases ==
    ASSUME NEW s, Header(s)
    PROVE  /\ section' = s
           /\ \/ /\ s \in PathSection /\ Len(new.paths) < MaxPaths
                 /\ new' = PutPath(new, s)
                 /\ cur_path' = Len(new.paths) + 1
              \/ /\ s \notin PathSection \/ ~(Len(new.paths) < MaxPaths)
                 /\ cur_path' = 0 /\ new' = new
BY DEF Header, PutPath

\* The value of a key line is a value.
LEMMA LineValue == ASSUME NEW l \in Line, l.kind = "key" PROVE l.val \in Value
BY DEF Value

\* A key and its value leave a configuration.
LEMMA AssignedType ==
    ASSUME IsConfig(new), cur_path \in 0..Len(new.paths), NEW key, NEW val \in Value,
           NEW e, e = Assigned(new, key, val)
    PROVE  IsConfig(e) /\ Len(e.paths) = Len(new.paths)
<1>1. DOMAIN new.set = Sections /\ \A s \in Sections : DOMAIN new.set[s] = DOMAIN DefaultSections[s]
  BY DEF IsConfig
<1>2. Len(new.paths) \in Nat
  BY DEF IsConfig
<1>3. CASE /\ section \in DOMAIN new.set /\ key \in DOMAIN new.set[section]
           /\ e = PutKey(new, section, key, val)
  <2>1. section \in Sections /\ key \in DOMAIN DefaultSections[section]
    BY <1>1, <1>3, Zenon
  <2> QED BY <1>3, <2>1, SetKey
<1>4. CASE e = new
  BY <1>4
<1>5. CASE e = PutRoute(new, val)
  BY <1>5, AddRouteType
<1>6. CASE /\ cur_path # 0 /\ key \in PathKeys
           /\ e = PutPathKey(new, cur_path, key, val)
  <2>1. cur_path \in 1..Len(new.paths)
    BY <1>2, <1>6
  <2> QED BY <1>6, <2>1, SetPathKey
<1>7. \/ /\ section \in DOMAIN new.set /\ key \in DOMAIN new.set[section]
         /\ e = PutKey(new, section, key, val)
      \/ e = new \/ e = PutRoute(new, val)
      \/ /\ cur_path # 0 /\ key \in PathKeys
         /\ e = PutPathKey(new, cur_path, key, val)
  BY AssignedCases, Zenon
<1> QED BY <1>3, <1>4, <1>5, <1>6, <1>7

\* What strategy_reload leaves of a path: its name and its addresses.
LEMMA OverlayFacts ==
    ASSUME NEW p \in Seq(PathType), NEW q \in Seq(PathType), NEW i \in 1..Len(p)
    PROVE  /\ Overlay(p, q, i) \in PathType /\ Overlay(p, q, i).name = p[i].name
           /\ i \in 1..Len(q) => \A x \in {"weight", "enabled"} :
                                     Overlay(p, q, i).set[x] = q[i].set[x]
<1>1. p[i] \in PathType /\ "weight" \in PathKeys /\ "enabled" \in PathKeys
  BY DEF PathKeys, DefaultPath
<1>2. CASE i \in 1..Len(q)
  <2>1. q[i].set["weight"] \in Value /\ q[i].set["enabled"] \in Value
    <3>1. q[i] \in PathType
      BY <1>2
    <3>2. q[i].set \in [PathKeys -> Value]
      BY <3>1 DEF PathType
    <3> QED BY <1>1, <3>2
  <2>2. ~(i > Len(q))
    BY <1>2
  <2>3. PICK r : r = p[i]
    OBVIOUS
  <2>4. Overlay(p, q, i) = [r EXCEPT !.set["weight"] = q[i].set["weight"],
                                     !.set["enabled"] = q[i].set["enabled"]]
    BY <2>2, <2>3 DEF Overlay
  <2>5. /\ r.name \in PathSection /\ r.set \in [PathKeys -> Value]
        /\ r = [name |-> r.name, set |-> r.set]
    BY <1>1, <2>3 DEF PathType
  <2>6. PICK o : o = [r.set EXCEPT !["weight"] = q[i].set["weight"],
                                   !["enabled"] = q[i].set["enabled"]]
    OBVIOUS
  <2>7. o \in [PathKeys -> Value] /\ o["weight"] = q[i].set["weight"]
        /\ o["enabled"] = q[i].set["enabled"]
    BY <1>1, <2>1, <2>5, <2>6
  <2>8. Overlay(p, q, i) = [name |-> r.name, set |-> o]
    BY <2>4, <2>5, <2>6
  <2> QED BY <2>3, <2>5, <2>7, <2>8 DEF PathType
<1>3. CASE i \notin 1..Len(q)
  <2>1. Len(p) \in Nat /\ Len(q) \in Nat /\ i \in Nat /\ i >= 1
    OBVIOUS
  <2>2. Overlay(p, q, i) = p[i]
    BY <1>3, <2>1 DEF Overlay
  <2> QED BY <1>1, <1>3, <2>2 DEF PathType
<1> QED BY <1>2, <1>3

\* What a reload takes over and what it keeps.
LEMMA ReloadFacts ==
    ASSUME IsConfig(cfg), IsConfig(new), Reload
    PROVE  /\ IsConfig(cfg')
           /\ \A s \in Sections : \A x \in DOMAIN DefaultSections[s] :
                 ~Reloaded(s, x) => cfg'.set[s][x] = cfg.set[s][x]
           /\ Len(cfg'.paths) = Len(cfg.paths)
           /\ \A i \in 1..Len(cfg.paths) : cfg'.paths[i] = Overlay(cfg.paths, new.paths, i)
<1> DEFINE ps == [i \in DOMAIN cfg.paths |-> Overlay(cfg.paths, new.paths, i)]
           ss == [s \in DOMAIN cfg.set |-> [x \in DOMAIN cfg.set[s] |->
                      IF Reloaded(s, x) THEN new.set[s][x] ELSE cfg.set[s][x]]]
<1>1. cfg' = [cfg EXCEPT !.set = ss, !.paths = ps]
  BY DEF Reload
<1>2. cfg = [set |-> cfg.set, paths |-> cfg.paths, routes |-> cfg.routes]
  BY DEF IsConfig
<1>3. /\ cfg.paths \in Seq(PathType) /\ new.paths \in Seq(PathType)
      /\ Len(cfg.paths) \in Nat /\ DOMAIN cfg.paths = 1..Len(cfg.paths)
  BY DEF IsConfig
<1>4. /\ cfg.set = [s \in Sections |-> cfg.set[s]]
      /\ \A s \in Sections : cfg.set[s] = [x \in DOMAIN DefaultSections[s] |-> cfg.set[s][x]]
  BY DEF IsConfig
<1>5. \A i \in 1..Len(cfg.paths) : Overlay(cfg.paths, new.paths, i) \in PathType
  BY <1>3, OverlayFacts
<1>6. ps \in Seq(PathType) /\ Len(ps) = Len(cfg.paths)
  BY <1>3, <1>5
<1>7. \A i \in 1..Len(cfg.paths) : ps[i] = Overlay(cfg.paths, new.paths, i)
  BY <1>3
<1>8. \A s \in Sections :
        ss[s] = [x \in DOMAIN DefaultSections[s] |->
                    IF Reloaded(s, x) THEN new.set[s][x] ELSE cfg.set[s][x]]
  BY <1>4
<1>9. ss = [s \in Sections |-> ss[s]]
  BY <1>4
<1> HIDE DEF ps, ss
<1>10. /\ cfg'.set = ss /\ cfg'.paths = ps /\ cfg'.routes = cfg.routes
       /\ cfg' = [set |-> cfg'.set, paths |-> cfg'.paths, routes |-> cfg'.routes]
  BY <1>1, <1>2
<1>11. IsConfig(cfg')
  <2>1. ASSUME NEW s \in Sections
        PROVE  ss[s] \in [DOMAIN DefaultSections[s] -> Value]
    <3>1. /\ cfg.set[s] \in [DOMAIN DefaultSections[s] -> Value]
          /\ new.set[s] \in [DOMAIN DefaultSections[s] -> Value]
      BY DEF IsConfig
    <3> QED BY <1>8, <3>1
  <2>2. Len(cfg.paths) <= MaxPaths /\ cfg.routes \in Seq(Value) /\ Len(cfg.routes) <= MaxRoutes
    BY DEF IsConfig
  <2> QED BY <1>6, <1>9, <1>10, <2>1, <2>2 DEF IsConfig
<1>12. \A s \in Sections : \A x \in DOMAIN DefaultSections[s] :
         ~Reloaded(s, x) => cfg'.set[s][x] = cfg.set[s][x]
  BY <1>8, <1>10
<1> QED BY <1>6, <1>7, <1>10, <1>11, <1>12

\* A line leaves a configuration, and cur_path at a stored path or nowhere.
LEMMA TypeLine ==
    ASSUME TypeInv, NEW l \in Line, ReadLine(l) PROVE TypeInv'
<1>1. /\ IsConfig(new) /\ IsConfig(cfg) /\ file \in Seq(Line) /\ cur_path \in 0..Len(new.paths)
      /\ file' = Append(file, l) /\ UNCHANGED <<pc, started, cfg>> /\ Len(new.paths) \in Nat
  BY DEF TypeInv, IsConfig, ReadLine
<1>2. IsConfig(new') /\ cur_path' \in 0..Len(new'.paths)
  <2>1. CASE l.kind = "header"
    <3>1. Header(l.section)
      BY <2>1 DEF ReadLine
    <3>2. CASE new' = new /\ cur_path' = 0
      BY <1>1, <3>2
    <3>3. CASE /\ l.section \in PathSection /\ Len(new.paths) < MaxPaths
               /\ new' = PutPath(new, l.section) /\ cur_path' = Len(new.paths) + 1
      <4>1. IsConfig(new') /\ Len(new'.paths) = Len(new.paths) + 1
        BY <1>1, <3>3, AddPath
      <4> QED BY <1>1, <3>3, <4>1
    <3> QED BY <3>1, <3>2, <3>3, HeaderCases
  <2>2. CASE l.kind = "key"
    <3>1. new' = Assigned(new, l.key, l.val) /\ cur_path' = cur_path
      BY <2>2 DEF ReadLine
    <3>2. IsConfig(new') /\ Len(new'.paths) = Len(new.paths)
      BY <1>1, <2>2, <3>1, LineValue, AssignedType
    <3> QED BY <1>1, <3>1, <3>2
  <2>3. CASE l.kind = "ignored"
    BY <1>1, <2>3 DEF ReadLine
  <2> QED BY <2>1, <2>2, <2>3, FileAssumption
<1>3. IsConfig(cfg')
  BY <1>1
<1>4. file' \in Seq(Line)
  BY <1>1
<1> QED BY <1>1, <1>2, <1>3, <1>4 DEF TypeInv

\* Every step keeps the types.
LEMMA TypeNext == ASSUME TypeInv, [Next]_vars PROVE TypeInv'
<1>1. CASE UNCHANGED <<file, new, section, cur_path, started, cfg>>
           /\ pc' \in {"read", "loaded", "run", "no file", "refused", "no device"}
  BY <1>1 DEF TypeInv, IsConfig
<1>2. CASE EndOfFile
  BY <1>1, <1>2 DEF EndOfFile
<1>3. CASE OpenFails
  BY <1>1, <1>3 DEF OpenFails, TypeInv
<1>4. CASE UNCHANGED vars
  BY <1>1, <1>4 DEF vars, TypeInv
<1>5. Done => file' \in Seq(Line) /\ IsConfig(new') /\ cur_path' \in 0..Len(new'.paths)
  <2> SUFFICES ASSUME Done PROVE file' \in Seq(Line) /\ IsConfig(new') /\ cur_path' \in 0..Len(new'.paths)
    OBVIOUS
  <2>1. IsConfig(new') /\ file' = << >> /\ cur_path' = 0 /\ new' = Defaults
    BY DefaultsType DEF Done
  <2>2. Len(new'.paths) \in Nat
    BY <2>1 DEF IsConfig
  <2> QED BY <2>1, <2>2
<1>6. CASE Start
  <2>1. Done /\ cfg' = new /\ started' \in BOOLEAN /\ pc' \in {"run", "refused", "no device"}
    BY <1>6 DEF Start
  <2>2. IsConfig(cfg')
    BY <2>1 DEF TypeInv
  <2> QED BY <1>5, <2>1, <2>2 DEF TypeInv
<1>7. CASE Hup
  <2>1. Done /\ cfg' = cfg /\ started' = started /\ pc' = "read"
    BY <1>7 DEF Hup
  <2>2. IsConfig(cfg')
    BY <2>1 DEF TypeInv
  <2> QED BY <1>5, <2>1, <2>2 DEF TypeInv
<1>8. CASE Reload
  <2>1. Done /\ started' = started /\ pc' = "run"
    BY <1>8 DEF Reload
  <2>2. IsConfig(cfg')
    BY <1>8, ReloadFacts DEF TypeInv
  <2> QED BY <1>5, <2>1, <2>2 DEF TypeInv
<1> QED BY <1>2, <1>3, <1>4, <1>6, <1>7, <1>8, TypeLine DEF Next

\* The type invariant is inductive.
LEMMA TypeInvariant == Spec => []TypeInv
<1>1. Init => TypeInv
  <2> SUFFICES ASSUME Init PROVE TypeInv
    OBVIOUS
  <2>1. /\ IsConfig(new) /\ IsConfig(cfg) /\ file = << >> /\ cur_path = 0
        /\ pc = "read" /\ started = FALSE
    BY DefaultsType DEF Init
  <2>2. Len(new.paths) \in Nat
    BY <2>1 DEF IsConfig
  <2>3. file \in Seq(Line) /\ cur_path \in 0..Len(new.paths)
    BY <2>1, <2>2
  <2> QED BY <2>1, <2>3 DEF TypeInv
<1>2. TypeInv /\ [Next]_vars => TypeInv'
  BY TypeNext
<1> QED BY <1>1, <1>2, PTL DEF Spec

\* The clamps at the end of config_load bound what indexes arrays.
LEMMA Ranges ==
    ASSUME NEW c, IsConfig(c)
    PROVE  /\ k(c) \in 1..MaxK
           /\ window_size(c) \in 1..MaxWindow
           /\ max_payload(c) \in 1..MaxPayload
<1>1. ASSUME NEW x \in Int, NEW hi \in Nat \ {0} PROVE Clamp(x, hi) \in 1..hi
  BY DEF Clamp
<1>2. ASSUME NEW x \in {"k", "window_size", "max_payload"}
      PROVE  Number[c.set["coding"][x].text] \in Int
  <2>1. "coding" \in Sections /\ x \in DOMAIN DefaultSections["coding"]
    BY SectionFacts DEF DefaultCoding
  <2>2. c.set["coding"][x] \in Value
    <3>1. c.set["coding"] \in [DOMAIN DefaultSections["coding"] -> Value]
      BY <2>1 DEF IsConfig
    <3> QED BY <2>1, <3>1
  <2> QED BY <2>2, NumberAssumption
<1> QED BY <1>1, <1>2, FileAssumption DEF k, window_size, max_payload

\* No file of any lines and any length fills an array of the struct beyond its
\* end or leaves cur_path beyond the paths stored, and k, window_size and
\* max_payload are at least 1 and within the bounds of the arrays they index.
THEOREM TypeCorrect == Spec => []TypeOK
<1>1. TypeInv => TypeOK
  BY Ranges DEF TypeInv, TypeOK, IsConfig
<1> QED BY <1>1, TypeInvariant, PTL

-----------------------------------------------------------------------------
(***************************************************************************)
(* Reloads.                                                                *)
(***************************************************************************)
\* While the gateway runs, nothing but a reload changes its configuration.
LEMMA OnlyReload ==
    ASSUME started, [Next]_vars, cfg' # cfg PROVE Reload
BY DEF Next, vars, ReadLine, EndOfFile, OpenFails, Start, Hup

\* No reload of any file changes k, the window, the role, the key, or the
\* number and the names of the paths.
THEOREM StartupSettingsStay == Spec => StartupSettingsKept
<1> DEFINE Kept == /\ k(cfg') = k(cfg) /\ window_size(cfg') = window_size(cfg)
                   /\ mode(cfg') = mode(cfg) /\ crypto_key(cfg') = crypto_key(cfg)
                   /\ Len(cfg'.paths) = Len(cfg.paths)
                   /\ \A i \in DOMAIN cfg.paths : cfg'.paths[i].name = cfg.paths[i].name
<1>1. ASSUME TypeInv, [Next]_vars, started PROVE Kept
  <2>1. CASE cfg' = cfg
    BY <2>1
  <2>2. CASE cfg' # cfg
    <3>1. Reload /\ IsConfig(cfg) /\ IsConfig(new)
      BY <1>1, <2>2, OnlyReload DEF TypeInv
    <3>2. \A s \in Sections : \A x \in DOMAIN DefaultSections[s] :
             ~Reloaded(s, x) => cfg'.set[s][x] = cfg.set[s][x]
      BY <3>1, ReloadFacts
    <3>3. /\ cfg'.set["coding"]["k"] = cfg.set["coding"]["k"]
          /\ cfg'.set["coding"]["window_size"] = cfg.set["coding"]["window_size"]
          /\ cfg'.set["general"]["mode"] = cfg.set["general"]["mode"]
          /\ cfg'.set["general"]["crypto_key"] = cfg.set["general"]["crypto_key"]
      <4>1. /\ "k" \in DOMAIN DefaultSections["coding"]
            /\ "window_size" \in DOMAIN DefaultSections["coding"]
            /\ "mode" \in DOMAIN DefaultSections["general"]
            /\ "crypto_key" \in DOMAIN DefaultSections["general"]
        BY SectionFacts DEF Default, DefaultCoding
      <4>2. "coding" \in Sections /\ "general" \in Sections
        BY SectionFacts
      <4>3. /\ ~Reloaded("coding", "k") /\ ~Reloaded("coding", "window_size")
            /\ ~Reloaded("general", "mode") /\ ~Reloaded("general", "crypto_key")
        BY DEF Reloaded
      <4> QED BY <3>2, <4>1, <4>2, <4>3, Zenon
    <3>4. /\ cfg.paths \in Seq(PathType) /\ new.paths \in Seq(PathType)
          /\ DOMAIN cfg.paths = 1..Len(cfg.paths)
      BY <3>1 DEF IsConfig
    <3>5. \A i \in 1..Len(cfg.paths) : cfg'.paths[i].name = cfg.paths[i].name
      BY <3>1, <3>4, ReloadFacts, OverlayFacts
    <3>6. Len(cfg'.paths) = Len(cfg.paths)
      BY <3>1, ReloadFacts
    <3> QED BY <3>3, <3>4, <3>5, <3>6 DEF k, window_size, mode, crypto_key
  <2> QED BY <2>1, <2>2
<1>2. TypeInv /\ [Next]_vars => [started => Kept]_vars
  BY <1>1 DEF vars
<1> QED BY <1>2, TypeInvariant, PTL DEF Spec, StartupSettingsKept

-----------------------------------------------------------------------------
(***************************************************************************)
(* What a file says.  The definitions of Config are taken for any file f,  *)
(* so that f and f with one more line can be compared.                     *)
(***************************************************************************)
Before(f, i) == {h \in 1..i : f[h].kind = "header"}

\* The header over line i, its section, and the value of the last of some lines.
Highest(S) == IF S = {} THEN 0 ELSE CHOOSE h \in S : \A g \in S : g <= h
Over(f, i) == Highest(Before(f, i))
SectionOf(f, i) == IF Over(f, i) = 0 THEN Empty ELSE f[Over(f, i)].section
LastValue(f, lines, d) ==
    IF lines = {} THEN d ELSE f[CHOOSE i \in lines : \A j \in lines : j <= i].val

\* The lines with key x in section s, and below the header at h.
InSection(f, x, s) ==
    {i \in 1..Len(f) : f[i].kind = "key" /\ f[i].key = x /\ SectionOf(f, i) = s}
Below(f, x, h) ==
    {i \in 1..Len(f) : f[i].kind = "key" /\ f[i].key = x /\ Over(f, i) = h}

\* The headers of paths, their count up to h, and the n-th of them.
Heads(f)   == {i \in 1..Len(f) : f[i].kind = "header" /\ f[i].section \in PathSection}
Rank(f, h) == Cardinality({g \in Heads(f) : g <= h})
NthHead(f, n) == CHOOSE h \in Heads(f) : Rank(f, h) = n
Ranked(f)  == \A n \in 1..Cardinality(Heads(f)) : \E h \in Heads(f) : Rank(f, h) = n
Stored(f)  == IF Cardinality(Heads(f)) < MaxPaths THEN Cardinality(Heads(f)) ELSE MaxPaths

\* The path that keys at the end of f belong to, or 0.
PathAtEnd(f) ==
    LET h == Over(f, Len(f))
    IN  IF h \in Heads(f) /\ Rank(f, h) <= MaxPaths THEN Rank(f, h) ELSE 0

\* The struct c is what f says.
SaysSections(f, c) ==
    \A s \in Sections : \A x \in DOMAIN DefaultSections[s] :
        c.set[s][x] = LastValue(f, InSection(f, x, s), DefaultSections[s][x])
SaysPaths(f, c) ==
    /\ Len(c.paths) = Stored(f)
    /\ \A n \in 1..Stored(f) :
          /\ c.paths[n].name = f[NthHead(f, n)].section
          /\ \A x \in PathKeys :
                c.paths[n].set[x] = LastValue(f, Below(f, x, NthHead(f, n)), DefaultPath[x])

ParseInv ==
    /\ section = SectionOf(file, Len(file)) /\ cur_path = PathAtEnd(file)
    /\ Ranked(file)
    /\ SaysSections(file, new) /\ SaysPaths(file, new)

\* A set of line numbers that is not empty has a highest one.
LEMMA HighestLine ==
    ASSUME NEW n \in Nat, NEW T, T \subseteq 1..n, T # {}
    PROVE  \E i \in T : \A j \in T : j <= i
<1> DEFINE Less == {ss \in Nat \X Nat : ss[1] < ss[2]}
           M == {m \in Nat : n - m \in T}
<1>1. IsWellFoundedOn(Less, Nat)
  BY NatLessThanWellFounded, Zenon DEF OpToRel
<1>2. \A j \in T : j \in Nat /\ n - j \in Nat /\ n - (n - j) = j
  OBVIOUS
<1>3. \A j \in T : n - j \in M
  BY <1>2
<1>4. M \subseteq Nat /\ M # {}
  BY <1>3
<1> HIDE DEF Less
<1>5. PICK m \in M : \A o \in M : ~(<<o, m>> \in Less)
  <2> HIDE DEF M
  <2> QED BY <1>1, <1>4, WFMin
<1>6. m \in Nat /\ n - m \in T
  OBVIOUS
<1>7. ASSUME NEW j \in T PROVE j <= n - m
  <2>1. ~(n - j < m)
    BY <1>2, <1>3, <1>5, <1>6 DEF Less
  <2> QED BY <1>2, <1>6, <2>1
<1> QED BY <1>6, <1>7

\* The file g is f with the line l at its end.
Longer(g, f, l) == g = Append(f, l)

\* A file with one more line.
LEMMA OneMoreLine ==
    ASSUME NEW f \in Seq(Line), NEW l \in Line, NEW g, Longer(g, f, l)
    PROVE  /\ g \in Seq(Line) /\ Len(f) \in Nat /\ Len(g) = Len(f) + 1
           /\ \A i \in 1..Len(f) : g[i] = f[i]
           /\ g[Len(f) + 1] = l
           /\ 1..Len(g) = (1..Len(f)) \cup {Len(f) + 1}
<1>1. /\ g \in Seq(Line) /\ Len(f) \in Nat /\ Len(g) = Len(f) + 1
      /\ \A i \in 1..Len(f) : g[i] = f[i]
      /\ g[Len(f) + 1] = l
  BY AppendProperties DEF Longer
<1>2. 1..Len(g) = (1..Len(f)) \cup {Len(f) + 1}
  BY <1>1
<1> QED BY <1>1, <1>2

\* The header over a line is at or above it.
LEMMA OverType ==
    ASSUME NEW f \in Seq(Line), NEW i \in 0..Len(f)
    PROVE  Over(f, i) \in 0..i /\ (Over(f, i) # 0 => Over(f, i) \in Before(f, i))
<1>1. CASE Before(f, i) = {}
  BY <1>1 DEF Over, Highest
<1>2. CASE Before(f, i) # {}
  <2>1. i \in Nat /\ Before(f, i) \subseteq 1..i
    BY DEF Before
  <2>2. \E h \in Before(f, i) : \A g \in Before(f, i) : g <= h
    BY <1>2, <2>1, HighestLine
  <2>3. Over(f, i) \in Before(f, i)
    BY <1>2, <2>2 DEF Over, Highest
  <2> QED BY <2>1, <2>3
<1> QED BY <1>1, <1>2

\* A line that is appended leaves the headers over the others as they were; it
\* is under itself or under the header in force.
LEMMA OverAppend ==
    ASSUME NEW f \in Seq(Line), NEW l \in Line, NEW g, Longer(g, f, l)
    PROVE  /\ \A i \in 0..Len(f) : Over(g, i) = Over(f, i)
           /\ Over(g, Len(g)) = IF l.kind = "header" THEN Len(g) ELSE Over(f, Len(f))
<1> DEFINE n == Len(f)
<1>1. n \in Nat /\ Len(g) = n + 1 /\ (\A i \in 1..n : g[i] = f[i]) /\ g[n + 1] = l
  BY OneMoreLine
<1>2. ASSUME NEW i \in 0..n PROVE Over(g, i) = Over(f, i)
  <2>1. Before(g, i) = Before(f, i)
    BY <1>1 DEF Before
  <2> QED BY <2>1 DEF Over
<1>3. CASE l.kind = "header"
  <2>1. n + 1 \in Before(g, n + 1) /\ \A h \in Before(g, n + 1) : h \in Nat /\ h <= n + 1
    BY <1>1, <1>3 DEF Before
  <2>2. \A h \in Before(g, n + 1) : (\A e \in Before(g, n + 1) : e <= h) => h = n + 1
    BY <1>1, <2>1
  <2>3. (CHOOSE h \in Before(g, n + 1) : \A e \in Before(g, n + 1) : e <= h) = n + 1
    BY <2>1, <2>2
  <2>4. Over(g, n + 1) = n + 1
    BY <2>1, <2>3 DEF Over, Highest
  <2> QED BY <1>1, <1>2, <1>3, <2>4
<1>4. CASE l.kind # "header"
  <2>1. Before(g, n + 1) = Before(f, n)
    BY <1>1, <1>4 DEF Before
  <2>2. Over(g, n + 1) = Over(f, n)
    BY <2>1 DEF Over
  <2> QED BY <1>1, <1>2, <1>4, <2>2
<1> QED BY <1>3, <1>4

\* So do the sections.
LEMMA SectionAppend ==
    ASSUME NEW f \in Seq(Line), NEW l \in Line, NEW g, Longer(g, f, l)
    PROVE  /\ \A i \in 0..Len(f) : SectionOf(g, i) = SectionOf(f, i)
           /\ SectionOf(g, Len(g)) = IF l.kind = "header" THEN l.section
                                     ELSE SectionOf(f, Len(f))
<1> DEFINE n == Len(f)
<1>1. n \in Nat /\ Len(g) = n + 1 /\ (\A i \in 1..n : g[i] = f[i]) /\ g[n + 1] = l
  BY OneMoreLine
<1>2. \A i \in 0..n : Over(g, i) = Over(f, i)
  BY OverAppend
<1>3. Over(g, n + 1) = IF l.kind = "header" THEN n + 1 ELSE Over(f, n)
  <2>1. Over(g, Len(g)) = IF l.kind = "header" THEN Len(g) ELSE Over(f, Len(f))
    BY OverAppend
  <2> QED BY <1>1, <2>1, Zenon
<1>4. ASSUME NEW i \in 0..n PROVE SectionOf(g, i) = SectionOf(f, i)
  <2>1. Over(f, i) = 0 \/ Over(f, i) \in 1..n
    BY <1>1, OverType
  <2> QED BY <1>1, <1>2, <2>1 DEF SectionOf
<1>5. CASE l.kind = "header"
  <2>1. Over(g, n + 1) = n + 1
    BY <1>5, <1>3
  <2>2. n + 1 # 0
    BY <1>1
  <2>3. SectionOf(g, n + 1) = g[n + 1].section
    BY <2>1, <2>2, Zenon DEF SectionOf
  <2> QED BY <1>1, <1>4, <1>5, <2>3
<1>6. CASE l.kind # "header"
  <2>1. Over(g, n + 1) = Over(f, n)
    BY <1>6, <1>3
  <2>2. Over(f, n) = 0 \/ Over(f, n) \in 1..n
    BY <1>1, OverType
  <2>3. SectionOf(g, n + 1) = SectionOf(f, n)
    BY <1>1, <2>1, <2>2 DEF SectionOf
  <2> QED BY <1>1, <1>4, <1>6, <2>3
<1> QED BY <1>5, <1>6

\* Some lines of a file.
LinesOf(f) == SUBSET (1..Len(f))

\* The last value of some lines is that of a line appended to them, and does
\* not change with a line that is none of them.
LEMMA LastValueAppend ==
    ASSUME NEW f \in Seq(Line), NEW l \in Line, NEW g, Longer(g, f, l),
           NEW lines \in LinesOf(f)
    PROVE  \A d : /\ LastValue(g, lines, d) = LastValue(f, lines, d)
                  /\ LastValue(g, lines \cup {Len(f) + 1}, d) = l.val
<1> SUFFICES ASSUME NEW d
             PROVE  /\ LastValue(g, lines, d) = LastValue(f, lines, d)
                    /\ LastValue(g, lines \cup {Len(f) + 1}, d) = l.val
  OBVIOUS
<1> DEFINE n == Len(f)
<1>1. /\ n \in Nat /\ lines \subseteq 1..n
      /\ (\A i \in 1..n : g[i] = f[i]) /\ g[n + 1] = l
  BY OneMoreLine DEF LinesOf
<1>2. LastValue(g, lines, d) = LastValue(f, lines, d)
  <2>1. CASE lines = {}
    BY <2>1 DEF LastValue
  <2>2. CASE lines # {}
    <3>1. \E i \in lines : \A j \in lines : j <= i
      BY <1>1, <2>2, HighestLine
    <3>2. (CHOOSE i \in lines : \A j \in lines : j <= i) \in 1..n
      BY <1>1, <3>1
    <3> QED BY <1>1, <2>2, <3>2 DEF LastValue
  <2> QED BY <2>1, <2>2
<1>3. LastValue(g, lines \cup {n + 1}, d) = l.val
  <2> DEFINE all == lines \cup {n + 1}
  <2>1. n + 1 \in all /\ \A i \in all : i \in Nat /\ i <= n + 1
    BY <1>1
  <2>2. \A i \in all : (\A j \in all : j <= i) => i = n + 1
    BY <1>1, <2>1
  <2> HIDE DEF all
  <2>3. (CHOOSE i \in all : \A j \in all : j <= i) = n + 1
    BY <2>1, <2>2
  <2>4. LastValue(g, all, d) = l.val
    BY <1>1, <2>1, <2>3 DEF LastValue
  <2> QED BY <2>4 DEF all
<1> QED BY <1>2, <1>3

\* The headers of paths are finitely many, and their ranks tell them apart.
LEMMA RankFacts ==
    ASSUME NEW f \in Seq(Line)
    PROVE  /\ IsFiniteSet(Heads(f)) /\ Cardinality(Heads(f)) \in Nat
           /\ \A h \in Heads(f) : Rank(f, h) \in 1..Cardinality(Heads(f))
           /\ \A h, e \in Heads(f) : Rank(f, h) = Rank(f, e) => h = e
<1>1. Len(f) \in Nat /\ Heads(f) \subseteq 1..Len(f)
  BY DEF Heads
<1>2. IsFiniteSet(Heads(f)) /\ Cardinality(Heads(f)) \in Nat
  <2>1. IsFiniteSet(1..Len(f))
    BY <1>1, FS_Interval
  <2>2. IsFiniteSet(Heads(f))
    BY <1>1, <2>1, FS_Subset
  <2> QED BY <2>2, FS_CardinalityType
<1> DEFINE Upto(h) == {e \in Heads(f) : e <= h}
<1>3. ASSUME NEW h \in Heads(f)
      PROVE  /\ IsFiniteSet(Upto(h)) /\ Cardinality(Upto(h)) \in 1..Cardinality(Heads(f))
             /\ Rank(f, h) = Cardinality(Upto(h))
  <2>1. Upto(h) \in SUBSET Heads(f) /\ h \in Upto(h)
    BY <1>1
  <2>2. IsFiniteSet(Upto(h)) /\ Cardinality(Upto(h)) <= Cardinality(Heads(f))
    BY <1>2, <2>1, FS_Subset
  <2>3. Cardinality(Upto(h)) \in Nat /\ Cardinality(Upto(h)) # 0
    BY <2>1, <2>2, FS_CardinalityType, FS_EmptySet
  <2>4. Rank(f, h) = Cardinality(Upto(h))
    BY DEF Rank
  <2> HIDE DEF Upto
  <2> QED BY <1>2, <2>2, <2>3, <2>4
<1>4. ASSUME NEW h \in Heads(f), NEW e \in Heads(f), h < e PROVE Rank(f, h) # Rank(f, e)
  <2>1. Upto(h) \in SUBSET Upto(e) /\ e \notin Upto(h) /\ e \in Upto(e)
    BY <1>1, <1>4
  <2>2. Cardinality(Upto(h)) # Cardinality(Upto(e))
    <3> HIDE DEF Upto
    <3> QED BY <1>3, <2>1, FS_Subset
  <2> QED BY <1>3, <2>2
<1>5. ASSUME NEW h \in Heads(f), NEW e \in Heads(f), Rank(f, h) = Rank(f, e) PROVE h = e
  <2>1. h \in Int /\ e \in Int
    BY <1>1
  <2> QED BY <1>4, <1>5, <2>1
<1> QED BY <1>2, <1>3, <1>5

\* The n-th header of a path is the one that has rank n.
LEMMA NthFacts ==
    ASSUME NEW f \in Seq(Line), Ranked(f), NEW n \in 1..Cardinality(Heads(f))
    PROVE  /\ NthHead(f, n) \in Heads(f) /\ Rank(f, NthHead(f, n)) = n
           /\ \A h \in Heads(f) : Rank(f, h) = n => h = NthHead(f, n)
<1>1. \E h \in Heads(f) : Rank(f, h) = n
  BY DEF Ranked
<1>2. NthHead(f, n) \in Heads(f) /\ Rank(f, NthHead(f, n)) = n
  BY <1>1 DEF NthHead
<1> QED BY <1>2, RankFacts

\* A line that is no header of a path leaves the headers of paths as they are.
LEMMA HeadsStay ==
    ASSUME NEW f \in Seq(Line), NEW l \in Line, NEW g, Longer(g, f, l), Ranked(f),
           ~(l.kind = "header" /\ l.section \in PathSection)
    PROVE  /\ Heads(g) = Heads(f) /\ Ranked(g) /\ Stored(g) = Stored(f)
           /\ \A h : Rank(g, h) = Rank(f, h)
           /\ \A n : NthHead(g, n) = NthHead(f, n)
<1>1. /\ Len(f) \in Nat /\ 1..Len(g) = (1..Len(f)) \cup {Len(f) + 1}
      /\ (\A i \in 1..Len(f) : g[i] = f[i]) /\ g[Len(f) + 1] = l
  BY OneMoreLine
<1>2. Heads(g) = Heads(f)
  BY <1>1 DEF Heads
<1>3. \A h : Rank(g, h) = Rank(f, h)
  BY <1>2 DEF Rank
<1>4. \A n : NthHead(g, n) = NthHead(f, n)
  BY <1>2, <1>3 DEF NthHead
<1> QED BY <1>2, <1>3, <1>4 DEF Ranked, Stored

\* The header of a path becomes the last of them.
LEMMA HeadsGrow ==
    ASSUME NEW f \in Seq(Line), NEW l \in Line, NEW g, Longer(g, f, l), Ranked(f),
           l.kind = "header", l.section \in PathSection
    PROVE  LET c == Cardinality(Heads(f))
           IN  /\ Heads(g) = Heads(f) \cup {Len(g)} /\ Cardinality(Heads(g)) = c + 1
               /\ Ranked(g) /\ Rank(g, Len(g)) = c + 1 /\ NthHead(g, c + 1) = Len(g)
               /\ \A h \in Heads(f) : Rank(g, h) = Rank(f, h)
               /\ \A n \in 1..c : NthHead(g, n) = NthHead(f, n)
<1> DEFINE c == Cardinality(Heads(f))
<1>1. /\ g \in Seq(Line) /\ Len(f) \in Nat /\ Len(g) = Len(f) + 1
      /\ 1..Len(g) = (1..Len(f)) \cup {Len(g)}
      /\ (\A i \in 1..Len(f) : g[i] = f[i]) /\ g[Len(g)] = l
  BY OneMoreLine
<1>2. Heads(f) \subseteq 1..Len(f) /\ Len(g) \notin Heads(f)
  BY <1>1 DEF Heads
<1>3. Heads(g) = Heads(f) \cup {Len(g)}
  BY <1>1 DEF Heads
<1>4. IsFiniteSet(Heads(f)) /\ c \in Nat
  BY RankFacts
<1>5. Cardinality(Heads(g)) = c + 1
  BY <1>2, <1>3, <1>4, FS_AddElement
<1>6. ASSUME NEW h \in Heads(f) PROVE Rank(g, h) = Rank(f, h)
  <2>1. {e \in Heads(g) : e <= h} = {e \in Heads(f) : e <= h}
    BY <1>1, <1>2, <1>3
  <2> QED BY <2>1 DEF Rank
<1>7. Rank(g, Len(g)) = c + 1
  <2>1. {e \in Heads(g) : e <= Len(g)} = Heads(g)
    BY <1>1, <1>2, <1>3
  <2> QED BY <1>5, <2>1 DEF Rank
<1>8. Ranked(g)
  <2> SUFFICES ASSUME NEW n \in 1..(c + 1) PROVE \E h \in Heads(g) : Rank(g, h) = n
    BY <1>5 DEF Ranked
  <2>1. CASE n = c + 1
    BY <1>3, <1>7, <2>1
  <2>2. CASE n \in 1..c
    BY <1>3, <1>6, <2>2 DEF Ranked
  <2> QED BY <1>4, <2>1, <2>2
<1>9. \A n \in 1..(c + 1) : \A h \in Heads(g) : Rank(g, h) = n => h = NthHead(g, n)
  BY <1>1, <1>5, <1>8, NthFacts
<1>10. NthHead(g, c + 1) = Len(g)
  BY <1>3, <1>4, <1>7, <1>9
<1>11. ASSUME NEW n \in 1..c PROVE NthHead(g, n) = NthHead(f, n)
  <2>1. NthHead(f, n) \in Heads(f) /\ Rank(f, NthHead(f, n)) = n
    BY NthFacts
  <2> QED BY <1>3, <1>4, <1>6, <1>9, <2>1
<1> QED BY <1>3, <1>5, <1>6, <1>7, <1>8, <1>10, <1>11

\* The lines of a key gain the line that is appended, or stay as they are.
LEMMA InSectionAppend ==
    ASSUME NEW f \in Seq(Line), NEW l \in Line, NEW g, Longer(g, f, l)
    PROVE  \A x, s : /\ InSection(f, x, s) \in LinesOf(f)
                     /\ InSection(g, x, s) =
                           IF l.kind = "key" /\ l.key = x /\ SectionOf(g, Len(g)) = s
                           THEN InSection(f, x, s) \cup {Len(f) + 1} ELSE InSection(f, x, s)
<1>1. /\ Len(f) \in Nat /\ Len(g) = Len(f) + 1
      /\ 1..Len(g) = (1..Len(f)) \cup {Len(f) + 1}
      /\ (\A i \in 1..Len(f) : g[i] = f[i]) /\ g[Len(f) + 1] = l
  BY OneMoreLine
<1>2. \A i \in 0..Len(f) : SectionOf(g, i) = SectionOf(f, i)
  BY SectionAppend
<1>3. \A i \in 1..Len(f) : SectionOf(g, i) = SectionOf(f, i)
  BY <1>1, <1>2
<1> QED BY <1>1, <1>3 DEF InSection, LinesOf

\* The lines below a header that give key x, when a line is read.
LEMMA BelowAppend ==
    ASSUME NEW f \in Seq(Line), NEW l \in Line, NEW g, Longer(g, f, l)
    PROVE  \A x, h : /\ Below(f, x, h) \in LinesOf(f)
                     /\ Below(g, x, h) =
                           IF l.kind = "key" /\ l.key = x /\ Over(g, Len(g)) = h
                           THEN Below(f, x, h) \cup {Len(f) + 1} ELSE Below(f, x, h)
<1>1. /\ Len(f) \in Nat /\ Len(g) = Len(f) + 1
      /\ 1..Len(g) = (1..Len(f)) \cup {Len(f) + 1}
      /\ (\A i \in 1..Len(f) : g[i] = f[i]) /\ g[Len(f) + 1] = l
  BY OneMoreLine
<1>2. \A i \in 0..Len(f) : Over(g, i) = Over(f, i)
  BY OverAppend
<1>3. \A i \in 1..Len(f) : Over(g, i) = Over(f, i)
  BY <1>1, <1>2
<1> QED BY <1>1, <1>3 DEF Below, LinesOf

\* No line is below a header that is yet to come.
LEMMA BelowNext == ASSUME NEW f \in Seq(Line) PROVE \A x : Below(f, x, Len(f) + 1) = {}
<1>1. \A i \in 1..Len(f) : Over(f, i) # Len(f) + 1
  BY OverType
<1> QED BY <1>1 DEF Below

\* A key goes to the n-th path exactly when the last header is that path's.
LEMMA PathAtEndFacts ==
    ASSUME NEW f \in Seq(Line), Ranked(f)
    PROVE  /\ Stored(f) \in 0..Cardinality(Heads(f)) /\ Stored(f) <= MaxPaths
           /\ PathAtEnd(f) \in 0..Stored(f)
           /\ \A n \in 1..Stored(f) : Over(f, Len(f)) = NthHead(f, n) <=> PathAtEnd(f) = n
<1> DEFINE c == Cardinality(Heads(f))
           h == Over(f, Len(f))
<1>1. c \in Nat /\ MaxPaths \in Nat
  BY RankFacts, FileAssumption
<1>2. /\ Stored(f) \in 0..c /\ Stored(f) <= MaxPaths
      /\ \A n \in 1..c : n <= MaxPaths <=> n \in 1..Stored(f)
  BY <1>1 DEF Stored
<1>3. CASE h \in Heads(f) /\ Rank(f, h) <= MaxPaths
  <2>1. PathAtEnd(f) = Rank(f, h)
    BY <1>3 DEF PathAtEnd
  <2>2. Rank(f, h) \in 1..Stored(f)
    BY <1>2, <1>3, RankFacts
  <2>3. \A n \in 1..Stored(f) : h = NthHead(f, n) <=> Rank(f, h) = n
    BY <1>1, <1>2, <1>3, NthFacts
  <2> QED BY <1>1, <1>2, <2>1, <2>2, <2>3
<1>4. CASE ~(h \in Heads(f) /\ Rank(f, h) <= MaxPaths)
  <2>1. PathAtEnd(f) = 0
    BY <1>4, Zenon DEF PathAtEnd
  <2>2. ASSUME NEW n \in 1..Stored(f), h = NthHead(f, n) PROVE FALSE
    <3>1. n \in 1..c /\ n <= MaxPaths
      BY <1>1, <1>2
    <3>2. h \in Heads(f) /\ Rank(f, h) = n
      BY <2>2, <3>1, NthFacts
    <3> QED BY <1>4, <3>1, <3>2
  <2>3. \A n \in 1..Stored(f) : 0 # n
    BY <1>1, <1>2
  <2> QED BY <1>1, <1>2, <2>1, <2>2, <2>3
<1> QED BY <1>3, <1>4

\* Which path the keys belong to after one more line.
LEMMA PathAtEndAppend ==
    ASSUME NEW f \in Seq(Line), NEW l \in Line, NEW g, Longer(g, f, l), Ranked(f)
    PROVE  PathAtEnd(g) =
              IF l.kind # "header" THEN PathAtEnd(f)
              ELSE IF l.section \in PathSection /\ Stored(f) < MaxPaths THEN Stored(f) + 1
              ELSE 0
<1> DEFINE c == Cardinality(Heads(f))
<1>1. c \in Nat /\ MaxPaths \in Nat /\ Len(f) \in Nat /\ Len(g) = Len(f) + 1 /\ Heads(f) \subseteq 1..Len(f)
  BY RankFacts, FileAssumption, OneMoreLine DEF Heads
<1>2. CASE l.kind # "header"
  <2>1. Heads(g) = Heads(f) /\ \A h : Rank(g, h) = Rank(f, h)
    <3>1. ~(l.kind = "header" /\ l.section \in PathSection)
      BY <1>2
    <3>2. /\ Heads(g) = Heads(f)
          /\ \A h : Rank(g, h) = Rank(f, h)
          /\ \A n : NthHead(g, n) = NthHead(f, n)
      BY <3>1, HeadsStay
    <3> QED BY <3>2
  <2>2. Over(g, Len(g)) = Over(f, Len(f))
    BY <1>2, OverAppend
  <2>3. PathAtEnd(g) = PathAtEnd(f)
    BY <2>1, <2>2, Zenon DEF PathAtEnd
  <2> QED BY <1>2, <2>3
<1>3. CASE l.kind = "header" /\ l.section \notin PathSection
  <2>1. Heads(g) = Heads(f) /\ Over(g, Len(g)) = Len(g)
    BY <1>3, HeadsStay, OverAppend
  <2>2. Len(g) \notin Heads(g)
    BY <1>1, <2>1
  <2>3. PathAtEnd(g) = 0
    BY <2>1, <2>2, Zenon DEF PathAtEnd
  <2> QED BY <1>3, <2>3
<1>4. CASE l.kind = "header" /\ l.section \in PathSection
  <2>1. Heads(g) = Heads(f) \cup {Len(g)} /\ Rank(g, Len(g)) = c + 1
    BY <1>4, HeadsGrow
  <2>2. Over(g, Len(g)) = Len(g)
    BY <1>4, OverAppend
  <2>3. PathAtEnd(g) = IF c + 1 <= MaxPaths THEN c + 1 ELSE 0
    BY <2>1, <2>2 DEF PathAtEnd
  <2>4. (c + 1 <= MaxPaths <=> Stored(f) < MaxPaths) /\ (c < MaxPaths => Stored(f) = c)
    BY <1>1 DEF Stored
  <2> QED BY <1>1, <1>4, <2>3, <2>4
<1> QED BY <1>2, <1>3, <1>4

\* What the files say of the keys after a line that is a key, ...
LEMMA KeyAppend ==
    ASSUME NEW f \in Seq(Line), NEW l \in Line, NEW g, Longer(g, f, l), Ranked(f), l.kind = "key"
    PROVE  /\ \A s, x, d :
                 LastValue(g, InSection(g, x, s), d) =
                    IF s = SectionOf(f, Len(f)) /\ x = l.key THEN l.val
                    ELSE LastValue(f, InSection(f, x, s), d)
           /\ \A n \in 1..Stored(f) : \A x, d :
                 LastValue(g, Below(g, x, NthHead(f, n)), d) =
                    IF n = PathAtEnd(f) /\ x = l.key THEN l.val
                    ELSE LastValue(f, Below(f, x, NthHead(f, n)), d)
<1>1. SectionOf(g, Len(g)) = SectionOf(f, Len(f)) /\ Over(g, Len(g)) = Over(f, Len(f))
  <2>1. l.kind # "header"
    OBVIOUS
  <2>2. SectionOf(g, Len(g)) = IF l.kind = "header" THEN l.section ELSE SectionOf(f, Len(f))
    BY SectionAppend
  <2>3. Over(g, Len(g)) = IF l.kind = "header" THEN Len(g) ELSE Over(f, Len(f))
    BY OverAppend
  <2> QED BY <2>1, <2>2, <2>3
<1>2. ASSUME NEW s, NEW x, NEW d
      PROVE  LastValue(g, InSection(g, x, s), d) =
                IF s = SectionOf(f, Len(f)) /\ x = l.key THEN l.val
                ELSE LastValue(f, InSection(f, x, s), d)
  <2> DEFINE L == InSection(f, x, s)
  <2>1. L \in LinesOf(f)
    BY InSectionAppend
  <2>2. InSection(g, x, s) = IF s = SectionOf(f, Len(f)) /\ x = l.key THEN L \cup {Len(f) + 1} ELSE L
    BY <1>1, InSectionAppend
  <2> HIDE DEF L
  <2>3. LastValue(g, L, d) = LastValue(f, L, d) /\ LastValue(g, L \cup {Len(f) + 1}, d) = l.val
    BY <2>1, LastValueAppend
  <2>4. LastValue(g, InSection(g, x, s), d) =
           IF s = SectionOf(f, Len(f)) /\ x = l.key THEN l.val ELSE LastValue(f, L, d)
    BY <2>2, <2>3, Zenon
  <2> QED BY <2>4 DEF L
<1>3. ASSUME NEW n \in 1..Stored(f), NEW x, NEW d
      PROVE  LastValue(g, Below(g, x, NthHead(f, n)), d) =
                IF n = PathAtEnd(f) /\ x = l.key THEN l.val
                ELSE LastValue(f, Below(f, x, NthHead(f, n)), d)
  <2> DEFINE L == Below(f, x, NthHead(f, n))
  <2>1. L \in LinesOf(f)
    BY BelowAppend
  <2>2. Over(f, Len(f)) = NthHead(f, n) <=> n = PathAtEnd(f)
    BY PathAtEndFacts
  <2>3. Below(g, x, NthHead(f, n)) =
           IF l.kind = "key" /\ l.key = x /\ Over(g, Len(g)) = NthHead(f, n)
           THEN L \cup {Len(f) + 1} ELSE L
    BY BelowAppend
  <2> HIDE DEF L
  <2>4. LastValue(g, L, d) = LastValue(f, L, d) /\ LastValue(g, L \cup {Len(f) + 1}, d) = l.val
    BY <2>1, LastValueAppend
  <2>5. LastValue(g, Below(g, x, NthHead(f, n)), d) =
           IF n = PathAtEnd(f) /\ x = l.key THEN l.val ELSE LastValue(f, L, d)
    BY <1>1, <2>2, <2>3, <2>4, Zenon
  <2> QED BY <2>5 DEF L
<1> QED BY <1>2, <1>3

\* ... and after a line that is none.
LEMMA NoKeyAppend ==
    ASSUME NEW f \in Seq(Line), NEW l \in Line, NEW g, Longer(g, f, l), l.kind # "key"
    PROVE  /\ \A s, x, d :
                 LastValue(g, InSection(g, x, s), d) = LastValue(f, InSection(f, x, s), d)
           /\ \A h, x, d : LastValue(g, Below(g, x, h), d) = LastValue(f, Below(f, x, h), d)
<1>1. ASSUME NEW s, NEW x, NEW d
      PROVE  LastValue(g, InSection(g, x, s), d) = LastValue(f, InSection(f, x, s), d)
  <2> DEFINE L == InSection(f, x, s)
  <2>1. L \in LinesOf(f)
    BY InSectionAppend
  <2>2. InSection(g, x, s) = L
    BY InSectionAppend
  <2> HIDE DEF L
  <2>3. LastValue(g, L, d) = LastValue(f, L, d) /\ LastValue(g, L \cup {Len(f) + 1}, d) = l.val
    BY <2>1, LastValueAppend
  <2>4. LastValue(g, InSection(g, x, s), d) = LastValue(f, L, d)
    BY <2>2, <2>3, Zenon
  <2> QED BY <2>4 DEF L
<1>2. ASSUME NEW h, NEW x, NEW d
      PROVE  LastValue(g, Below(g, x, h), d) = LastValue(f, Below(f, x, h), d)
  <2> DEFINE L == Below(f, x, h)
  <2>1. L \in LinesOf(f)
    BY BelowAppend
  <2>2. Below(g, x, h) = L
    BY BelowAppend
  <2> HIDE DEF L
  <2>3. LastValue(g, L, d) = LastValue(f, L, d) /\ LastValue(g, L \cup {Len(f) + 1}, d) = l.val
    BY <2>1, LastValueAppend
  <2>4. LastValue(g, Below(g, x, h), d) = LastValue(f, L, d)
    BY <2>2, <2>3, Zenon
  <2> QED BY <2>4 DEF L
<1> QED BY <1>1, <1>2

\* A section that is not a path's is the last header of no path.
LEMMA SectionIsNoPath ==
    ASSUME NEW f \in Seq(Line), Ranked(f), PathAtEnd(f) # 0
    PROVE  SectionOf(f, Len(f)) \in PathSection /\ SectionOf(f, Len(f)) \notin Sections
<1>1. Over(f, Len(f)) \in Heads(f)
  BY Zenon DEF PathAtEnd
<1>2. Over(f, Len(f)) # 0
  BY <1>1, OneMoreLine DEF Heads
<1>3. SectionOf(f, Len(f)) = f[Over(f, Len(f))].section
  BY <1>2 DEF SectionOf
<1>4. SectionOf(f, Len(f)) \in PathSection
  BY <1>1, <1>3 DEF Heads
<1> QED BY <1>4, SectionFacts

-----------------------------------------------------------------------------
(***************************************************************************)
(* What config_load makes of a file.                                       *)
(***************************************************************************)
\* An empty file says the defaults.
LEMMA SaysNothing ==
    /\ SectionOf(<< >>, Len(<< >>)) = Empty /\ PathAtEnd(<< >>) = 0 /\ Ranked(<< >>)
    /\ SaysSections(<< >>, Defaults) /\ SaysPaths(<< >>, Defaults)
<1> DEFINE f == << >>
<1>1. f \in Seq(Line) /\ Len(f) = 0 /\ 1..Len(f) = {}
  OBVIOUS
<1> HIDE DEF f
<1>2. Before(f, 0) = {} /\ Heads(f) = {} /\ \A x, s : InSection(f, x, s) = {}
  BY <1>1 DEF Before, Heads, InSection
<1>3. Over(f, 0) = 0
  BY <1>2 DEF Over, Highest
<1>4. SectionOf(f, 0) = Empty
  BY <1>3 DEF SectionOf
<1>5. PathAtEnd(f) = 0
  BY <1>1, <1>2, Zenon DEF PathAtEnd
<1>6. Cardinality(Heads(f)) = 0 /\ Stored(f) = 0
  BY <1>2, FS_EmptySet, FileAssumption DEF Stored
<1>7. Ranked(f)
  BY <1>6 DEF Ranked
<1>8. Defaults.set = DefaultSections /\ Defaults.paths = << >> /\ Len(<< >>) = 0
  BY DEF Defaults
<1>9. SaysSections(f, Defaults)
  BY <1>2, <1>8, Zenon DEF SaysSections, LastValue
<1>10. SaysPaths(f, Defaults)
  BY <1>6, <1>8 DEF SaysPaths
<1> QED BY <1>1, <1>4, <1>5, <1>7, <1>9, <1>10 DEF f

\* Lines that start no path that is stored leave those that are.
LEMMA StoredStay ==
    ASSUME NEW f \in Seq(Line), NEW l \in Line, NEW g, Longer(g, f, l), Ranked(f),
           ~(l.kind = "header" /\ l.section \in PathSection /\ Stored(f) < MaxPaths)
    PROVE  /\ Stored(g) = Stored(f)
           /\ \A n \in 1..Stored(f) : /\ NthHead(g, n) = NthHead(f, n)
                                      /\ NthHead(f, n) \in 1..Len(f)
                                      /\ g[NthHead(g, n)] = f[NthHead(f, n)]
<1>1. \A i \in 1..Len(f) : g[i] = f[i]
  BY OneMoreLine
<1>2. \A n \in 1..Stored(f) : n \in 1..Cardinality(Heads(f))
  BY PathAtEndFacts, RankFacts
<1>3. \A n \in 1..Stored(f) : NthHead(f, n) \in 1..Len(f)
  BY <1>2, NthFacts DEF Heads
<1>4. CASE ~(l.kind = "header" /\ l.section \in PathSection)
  <2>1. /\ Heads(g) = Heads(f) /\ Ranked(g) /\ Stored(g) = Stored(f)
        /\ \A h : Rank(g, h) = Rank(f, h)
        /\ \A n : NthHead(g, n) = NthHead(f, n)
    BY <1>4, HeadsStay
  <2> QED BY <1>1, <1>3, <2>1
<1>5. CASE l.kind = "header" /\ l.section \in PathSection
  <2> DEFINE c == Cardinality(Heads(f))
  <2>1. Cardinality(Heads(g)) = c + 1 /\ \A n \in 1..c : NthHead(g, n) = NthHead(f, n)
    BY <1>5, HeadsGrow
  <2>2. c \in Nat /\ MaxPaths \in Nat /\ ~(Stored(f) < MaxPaths)
    BY <1>5, RankFacts, FileAssumption
  <2>3. Stored(g) = Stored(f)
    BY <2>1, <2>2 DEF Stored
  <2> QED BY <1>1, <1>2, <1>3, <2>1, <2>3
<1> QED BY <1>4, <1>5

\* A line that is ignored, and a header that starts no path that is stored,
\* say nothing.
LEMMA NothingSaid ==
    ASSUME NEW f \in Seq(Line), NEW l \in Line, NEW g, Longer(g, f, l), Ranked(f),
           ~(l.kind = "header" /\ l.section \in PathSection /\ Stored(f) < MaxPaths),
           l.kind # "key", NEW c, SaysSections(f, c), SaysPaths(f, c)
    PROVE  SaysSections(g, c) /\ SaysPaths(g, c)
<1>1. /\ Stored(g) = Stored(f)
      /\ \A n \in 1..Stored(f) : /\ NthHead(g, n) = NthHead(f, n)
                                 /\ NthHead(f, n) \in 1..Len(f)
                                 /\ g[NthHead(g, n)] = f[NthHead(f, n)]
  BY StoredStay
<1>2. /\ \A s, x, d : LastValue(g, InSection(g, x, s), d) = LastValue(f, InSection(f, x, s), d)
      /\ \A h, x, d : LastValue(g, Below(g, x, h), d) = LastValue(f, Below(f, x, h), d)
  BY NoKeyAppend
<1>3. SaysSections(g, c)
  BY <1>2 DEF SaysSections
<1>4. Len(c.paths) = Stored(g)
  BY <1>1 DEF SaysPaths
<1>5. ASSUME NEW n \in 1..Stored(g)
      PROVE  /\ c.paths[n].name = g[NthHead(g, n)].section
             /\ \A x \in PathKeys :
                   c.paths[n].set[x] = LastValue(g, Below(g, x, NthHead(g, n)), DefaultPath[x])
  <2>1. /\ c.paths[n].name = f[NthHead(f, n)].section
        /\ \A x \in PathKeys :
              c.paths[n].set[x] = LastValue(f, Below(f, x, NthHead(f, n)), DefaultPath[x])
    BY <1>1 DEF SaysPaths
  <2> QED BY <1>1, <1>2, <2>1
<1> QED BY <1>3, <1>4, <1>5 DEF SaysPaths

\* The header of a path that is stored says a path with the defaults.
LEMMA PathSaid ==
    ASSUME NEW f \in Seq(Line), NEW l \in Line, NEW g, Longer(g, f, l), Ranked(f),
           l.kind = "header", l.section \in PathSection, Stored(f) < MaxPaths,
           NEW c, IsConfig(c), SaysSections(f, c), SaysPaths(f, c),
           NEW e, e = PutPath(c, l.section)
    PROVE  SaysSections(g, e) /\ SaysPaths(g, e)
<1> DEFINE m == Cardinality(Heads(f))
<1>1. /\ m \in Nat /\ MaxPaths \in Nat /\ Stored(f) = m /\ Len(c.paths) = m
  BY RankFacts, FileAssumption DEF Stored, SaysPaths
<1>2. /\ e.set = c.set /\ Len(e.paths) = m + 1
      /\ \A n \in 1..m : e.paths[n] = c.paths[n]
      /\ e.paths[m + 1] = [name |-> l.section, set |-> DefaultPath]
  BY <1>1, AddPath
<1>3. /\ Cardinality(Heads(g)) = m + 1 /\ NthHead(g, m + 1) = Len(g)
      /\ \A n \in 1..m : NthHead(g, n) = NthHead(f, n)
  BY HeadsGrow
<1>4. Stored(g) = m + 1
  BY <1>1, <1>3 DEF Stored
<1>5. /\ \A s, x, d : LastValue(g, InSection(g, x, s), d) = LastValue(f, InSection(f, x, s), d)
      /\ \A h, x, d : LastValue(g, Below(g, x, h), d) = LastValue(f, Below(f, x, h), d)
  BY NoKeyAppend
<1>6. /\ Len(g) = Len(f) + 1 /\ g[Len(g)] = l /\ \A i \in 1..Len(f) : g[i] = f[i]
  BY OneMoreLine
<1>7. SaysSections(g, e)
  BY <1>2, <1>5 DEF SaysSections
<1>8. ASSUME NEW n \in 1..m
      PROVE  /\ e.paths[n].name = g[NthHead(g, n)].section
             /\ \A x \in PathKeys :
                   e.paths[n].set[x] = LastValue(g, Below(g, x, NthHead(g, n)), DefaultPath[x])
  <2>1. /\ c.paths[n].name = f[NthHead(f, n)].section
        /\ \A x \in PathKeys :
              c.paths[n].set[x] = LastValue(f, Below(f, x, NthHead(f, n)), DefaultPath[x])
    BY <1>1 DEF SaysPaths
  <2>2. NthHead(f, n) \in 1..Len(f)
    BY NthFacts DEF Heads
  <2>3. NthHead(g, n) = NthHead(f, n) /\ e.paths[n] = c.paths[n]
    BY <1>2, <1>3
  <2>4. g[NthHead(g, n)] = f[NthHead(f, n)]
    BY <1>6, <2>2, <2>3
  <2> QED BY <1>5, <2>1, <2>3, <2>4
<1>9. ASSUME NEW x \in PathKeys
      PROVE  LastValue(g, Below(g, x, Len(g)), DefaultPath[x]) = DefaultPath[x]
  <2>1. Below(f, x, Len(g)) = {}
    BY <1>6, BelowNext
  <2>2. LastValue(f, Below(f, x, Len(g)), DefaultPath[x]) = DefaultPath[x]
    BY <2>1, Zenon DEF LastValue
  <2> QED BY <1>5, <2>2
<1>10. /\ e.paths[m + 1].name = g[NthHead(g, m + 1)].section
       /\ \A x \in PathKeys : e.paths[m + 1].set[x] =
             LastValue(g, Below(g, x, NthHead(g, m + 1)), DefaultPath[x])
  BY <1>2, <1>3, <1>6, <1>9
<1>11. \A n \in 1..Stored(g) : n \in 1..m \/ n = m + 1
  BY <1>1, <1>4
<1>12. SaysPaths(g, e)
  BY <1>2, <1>4, <1>8, <1>10, <1>11 DEF SaysPaths
<1> QED BY <1>7, <1>12

\* A key and its value change one place of the struct: that of the section or
\* of the path that the line is under.
LEMMA OnePlace ==
    ASSUME IsConfig(new), cur_path \in 0..Len(new.paths),
           cur_path # 0 => section \notin Sections,
           NEW key, NEW val \in Value, NEW e, e = Assigned(new, key, val)
    PROVE  /\ \A t \in Sections : \A x \in DOMAIN DefaultSections[t] :
                 e.set[t][x] = IF t = section /\ x = key THEN val ELSE new.set[t][x]
           /\ Len(e.paths) = Len(new.paths)
           /\ \A n \in 1..Len(new.paths) :
                 /\ e.paths[n].name = new.paths[n].name
                 /\ \A x \in PathKeys :
                       e.paths[n].set[x] = IF n = cur_path /\ x = key THEN val
                                           ELSE new.paths[n].set[x]
<1>1. DOMAIN new.set = Sections /\ \A s \in Sections : DOMAIN new.set[s] = DOMAIN DefaultSections[s]
  BY DEF IsConfig
<1>2. Len(new.paths) \in Nat /\ \A n \in 1..Len(new.paths) : n # 0
  BY DEF IsConfig
<1>3. CASE /\ section \in DOMAIN new.set /\ key \in DOMAIN new.set[section]
           /\ e = PutKey(new, section, key, val)
  <2>1. section \in Sections /\ key \in DOMAIN DefaultSections[section] /\ cur_path = 0
    BY <1>1, <1>3
  <2>2. /\ e.paths = new.paths
        /\ \A t \in Sections : \A x \in DOMAIN DefaultSections[t] :
              e.set[t][x] = IF t = section /\ x = key THEN val ELSE new.set[t][x]
    BY <1>3, <2>1, SetKey
  <2> QED BY <1>2, <2>1, <2>2
<1>4. CASE /\ section \in DOMAIN new.set /\ key \notin DOMAIN new.set[section]
           /\ e \in {new, PutRoute(new, val)}
  <2>1. section \in Sections /\ key \notin DOMAIN DefaultSections[section] /\ cur_path = 0
    BY <1>1, <1>4
  <2>2. e.set = new.set /\ e.paths = new.paths
    <3>1. CASE e = new
      BY <3>1
    <3>2. CASE e = PutRoute(new, val)
      BY <3>2, AddRouteType
    <3> QED BY <1>4, <3>1, <3>2
  <2> QED BY <1>2, <2>1, <2>2
<1>5. CASE /\ section \notin DOMAIN new.set /\ cur_path # 0 /\ key \in PathKeys
           /\ e = PutPathKey(new, cur_path, key, val)
  <2>1. cur_path \in 1..Len(new.paths) /\ section \notin Sections
    BY <1>1, <1>2, <1>5
  <2>2. /\ e.set = new.set /\ Len(e.paths) = Len(new.paths)
        /\ \A n \in 1..Len(new.paths) :
              /\ e.paths[n].name = new.paths[n].name
              /\ \A x \in PathKeys :
                    e.paths[n].set[x] = IF n = cur_path /\ x = key THEN val
                                        ELSE new.paths[n].set[x]
    BY <1>5, <2>1, SetPathKey
  <2> QED BY <2>1, <2>2
<1>6. CASE /\ section \notin DOMAIN new.set /\ (cur_path = 0 \/ key \notin PathKeys)
           /\ e = new
  <2>1. section \notin Sections
    BY <1>1, <1>6
  <2> QED BY <1>2, <1>6, <2>1
<1> QED BY <1>3, <1>4, <1>5, <1>6, AssignedCases, Zenon

\* So a key line is taken as the file says it.
LEMMA KeySaid ==
    ASSUME NEW f \in Seq(Line), NEW l \in Line, NEW g, Longer(g, f, l), Ranked(f),
           l.kind = "key", section = SectionOf(f, Len(f)), cur_path = PathAtEnd(f),
           IsConfig(new), SaysSections(f, new), SaysPaths(f, new),
           NEW e, e = Assigned(new, l.key, l.val)
    PROVE  SaysSections(g, e) /\ SaysPaths(g, e)
<1>1. /\ Stored(g) = Stored(f)
      /\ \A n \in 1..Stored(f) : /\ NthHead(g, n) = NthHead(f, n)
                                 /\ NthHead(f, n) \in 1..Len(f)
                                 /\ g[NthHead(g, n)] = f[NthHead(f, n)]
  BY StoredStay
<1>2. /\ \A s, x, d :
            LastValue(g, InSection(g, x, s), d) =
               IF s = section /\ x = l.key THEN l.val
               ELSE LastValue(f, InSection(f, x, s), d)
      /\ \A n \in 1..Stored(f) : \A x, d :
            LastValue(g, Below(g, x, NthHead(f, n)), d) =
               IF n = cur_path /\ x = l.key THEN l.val
               ELSE LastValue(f, Below(f, x, NthHead(f, n)), d)
  BY KeyAppend
<1>3. /\ \A t \in Sections : \A x \in DOMAIN DefaultSections[t] :
            e.set[t][x] = IF t = section /\ x = l.key THEN l.val ELSE new.set[t][x]
      /\ Len(e.paths) = Len(new.paths)
      /\ \A n \in 1..Len(new.paths) :
            /\ e.paths[n].name = new.paths[n].name
            /\ \A x \in PathKeys :
                  e.paths[n].set[x] = IF n = cur_path /\ x = l.key THEN l.val
                                      ELSE new.paths[n].set[x]
  <2>1. cur_path \in 0..Len(new.paths)
    BY PathAtEndFacts DEF SaysPaths
  <2>2. cur_path # 0 => section \notin Sections
    BY SectionIsNoPath
  <2>3. l.val \in Value
    BY LineValue
  <2> QED BY <2>1, <2>2, <2>3, OnePlace
<1>4. SaysSections(g, e)
  <2> SUFFICES ASSUME NEW s \in Sections, NEW x \in DOMAIN DefaultSections[s]
               PROVE  e.set[s][x] = LastValue(g, InSection(g, x, s), DefaultSections[s][x])
    BY DEF SaysSections
  <2>1. new.set[s][x] = LastValue(f, InSection(f, x, s), DefaultSections[s][x])
    BY DEF SaysSections
  <2>2. LastValue(g, InSection(g, x, s), DefaultSections[s][x]) =
           IF s = section /\ x = l.key THEN l.val
           ELSE LastValue(f, InSection(f, x, s), DefaultSections[s][x])
    BY <1>2
  <2>3. e.set[s][x] = IF s = section /\ x = l.key THEN l.val ELSE new.set[s][x]
    BY <1>3
  <2> QED BY <2>1, <2>2, <2>3
<1>5. Len(new.paths) = Stored(f) /\ Len(e.paths) = Stored(g)
  BY <1>1, <1>3 DEF SaysPaths
<1>6. ASSUME NEW n \in 1..Stored(f)
      PROVE  /\ e.paths[n].name = g[NthHead(g, n)].section
             /\ \A x \in PathKeys :
                   e.paths[n].set[x] = LastValue(g, Below(g, x, NthHead(g, n)), DefaultPath[x])
  <2>1. /\ new.paths[n].name = f[NthHead(f, n)].section
        /\ \A x \in PathKeys :
              new.paths[n].set[x] = LastValue(f, Below(f, x, NthHead(f, n)), DefaultPath[x])
    BY DEF SaysPaths
  <2>2. /\ e.paths[n].name = new.paths[n].name
        /\ \A x \in PathKeys :
              e.paths[n].set[x] = IF n = cur_path /\ x = l.key THEN l.val
                                  ELSE new.paths[n].set[x]
    BY <1>3, <1>5
  <2>3. e.paths[n].name = g[NthHead(g, n)].section
    BY <1>1, <2>1, <2>2
  <2>4. ASSUME NEW x \in PathKeys
        PROVE  e.paths[n].set[x] = LastValue(g, Below(g, x, NthHead(f, n)), DefaultPath[x])
    <3>1. LastValue(g, Below(g, x, NthHead(f, n)), DefaultPath[x]) =
             IF n = cur_path /\ x = l.key THEN l.val
             ELSE LastValue(f, Below(f, x, NthHead(f, n)), DefaultPath[x])
      BY <1>2
    <3> QED BY <2>1, <2>2, <3>1
  <2>5. NthHead(g, n) = NthHead(f, n)
    BY <1>1
  <2> QED BY <2>3, <2>4, <2>5
<1> QED BY <1>1, <1>4, <1>5, <1>6 DEF SaysPaths

\* The struct says what the file says, line by line: a line keeps ParseInv.
LEMMA ParseLine ==
    ASSUME TypeInv, ParseInv, NEW l \in Line, ReadLine(l)
    PROVE  ParseInv'
<1> DEFINE f == file
           g == file'
<1>1. f \in Seq(Line) /\ Longer(g, f, l) /\ Ranked(f)
  BY DEF ReadLine, Longer, TypeInv, ParseInv
<1>2. /\ section = SectionOf(f, Len(f)) /\ cur_path = PathAtEnd(f)
      /\ SaysSections(f, new) /\ SaysPaths(f, new) /\ IsConfig(new)
  BY DEF TypeInv, ParseInv
<1>3. Len(new.paths) = Stored(f)
  BY <1>2 DEF SaysPaths
<1>4. l.kind \in {"header", "key", "ignored"}
  BY FileAssumption
<1>5. SectionOf(g, Len(g)) = IF l.kind = "header" THEN l.section ELSE SectionOf(f, Len(f))
  BY <1>1, SectionAppend
<1>6. PathAtEnd(g) =
         IF l.kind # "header" THEN PathAtEnd(f)
         ELSE IF l.section \in PathSection /\ Stored(f) < MaxPaths THEN Stored(f) + 1
         ELSE 0
  BY <1>1, PathAtEndAppend
<1>7. Ranked(g)
  <2>1. CASE l.kind = "header" /\ l.section \in PathSection
    BY <1>1, <2>1, HeadsGrow
  <2>2. CASE ~(l.kind = "header" /\ l.section \in PathSection)
    <3>1. /\ Heads(g) = Heads(f) /\ Ranked(g) /\ Stored(g) = Stored(f)
          /\ \A h : Rank(g, h) = Rank(f, h)
          /\ \A n : NthHead(g, n) = NthHead(f, n)
      BY <1>1, <2>2, HeadsStay
    <3> QED BY <3>1
  <2> QED BY <2>1, <2>2
<1>8. /\ section' = SectionOf(g, Len(g)) /\ cur_path' = PathAtEnd(g)
      /\ SaysSections(g, new') /\ SaysPaths(g, new')
  <2>1. CASE l.kind = "header"
    <3>1. Header(l.section)
      BY <2>1 DEF ReadLine
    <3>2. section' = l.section
      BY <3>1, HeaderCases
    <3>3. CASE /\ l.section \in PathSection /\ Len(new.paths) < MaxPaths
               /\ new' = PutPath(new, l.section) /\ cur_path' = Len(new.paths) + 1
      <4>1. SaysSections(g, new') /\ SaysPaths(g, new')
        BY <1>1, <1>2, <1>3, <2>1, <3>3, PathSaid
      <4> QED BY <1>3, <1>5, <1>6, <2>1, <3>2, <3>3, <4>1
    <3>4. CASE /\ l.section \notin PathSection \/ ~(Len(new.paths) < MaxPaths)
               /\ cur_path' = 0 /\ new' = new
      <4>1. SaysSections(g, new) /\ SaysPaths(g, new)
        BY <1>1, <1>2, <1>3, <2>1, <3>4, NothingSaid
      <4> QED BY <1>3, <1>5, <1>6, <2>1, <3>2, <3>4, <4>1
    <3> QED BY <3>1, <3>3, <3>4, HeaderCases, Zenon
  <2>2. CASE l.kind = "key"
    <3>1. new' = Assigned(new, l.key, l.val) /\ section' = section /\ cur_path' = cur_path
      BY <2>2 DEF ReadLine
    <3>2. SaysSections(g, new') /\ SaysPaths(g, new')
      BY <1>1, <1>2, <2>2, <3>1, KeySaid
    <3> QED BY <1>2, <1>5, <1>6, <2>2, <3>1, <3>2
  <2>3. CASE l.kind = "ignored"
    <3>1. new' = new /\ section' = section /\ cur_path' = cur_path
      BY <2>3 DEF ReadLine
    <3>2. SaysSections(g, new) /\ SaysPaths(g, new)
      BY <1>1, <1>2, <2>3, NothingSaid
    <3> QED BY <1>2, <1>5, <1>6, <2>3, <3>1, <3>2
  <2> QED BY <1>4, <2>1, <2>2, <2>3
<1> QED BY <1>7, <1>8 DEF ParseInv

\* Every file is begun with the defaults.
LEMMA ParseBegin ==
    ASSUME file' = << >>, new' = Defaults, section' = Empty, cur_path' = 0
    PROVE  ParseInv'
BY SaysNothing, Zenon DEF ParseInv

\* Every line and every reload keeps what is parsed true to the file.
LEMMA ParseNext == ASSUME TypeInv, ParseInv, [Next]_vars PROVE ParseInv'
<1>1. ASSUME NEW l \in Line, ReadLine(l) PROVE ParseInv'
  BY <1>1, ParseLine
<1>2. CASE Start \/ Hup \/ Reload
  <2>1. Done
    BY <1>2 DEF Start, Hup, Reload
  <2> QED BY <2>1, ParseBegin DEF Done
<1>3. CASE EndOfFile \/ OpenFails \/ UNCHANGED vars
  <2>1. UNCHANGED <<file, new, section, cur_path>>
    BY <1>3 DEF EndOfFile, OpenFails, vars
  <2> QED BY <2>1, Zenon DEF ParseInv
<1> QED BY <1>1, <1>2, <1>3 DEF Next

\* So it is true at any time, in the middle of a file too.
LEMMA ParseInvariant == Spec => []ParseInv
<1>1. Init => ParseInv
  BY SaysNothing, Zenon DEF Init, ParseInv
<1>2. TypeInv /\ ParseInv /\ [Next]_vars => ParseInv'
  BY ParseNext
<1> QED BY <1>1, <1>2, TypeInvariant, PTL DEF Spec

\* Config says of the file what is said here of any file.
LEMMA SaidOfFile ==
    ASSUME file \in Seq(Line)
    PROVE  /\ \A lines, d : LastOf(lines, d) = LastValue(file, lines, d)
           /\ \A x, s : {i \in KeyLines(x) : Under(i) = s} = InSection(file, x, s)
           /\ \A x, h : {i \in KeyLines(x) : HeaderOf(i) = h} = Below(file, x, h)
           /\ StoredPaths = Stored(file)
           /\ \A n : PathHeader(n) = NthHead(file, n)
<1>1. DOMAIN file = 1..Len(file)
  OBVIOUS
<1>2. \A i : HeaderOf(i) = Over(file, i)
  BY DEF HeaderOf, Over, Highest, Before, IsHeader
<1>3. \A i : Under(i) = SectionOf(file, i)
  BY <1>2, Zenon DEF Under, SectionOf
<1>4. \A lines, d : LastOf(lines, d) = LastValue(file, lines, d)
  BY Zenon DEF LastOf, LastValue
<1>5. \A x, s : {i \in KeyLines(x) : Under(i) = s} = InSection(file, x, s)
  BY <1>1, <1>3 DEF KeyLines, InSection
<1>6. \A x, h : {i \in KeyLines(x) : HeaderOf(i) = h} = Below(file, x, h)
  BY <1>1, <1>2 DEF KeyLines, Below
<1>7. PathHeaders = Heads(file)
  BY <1>1 DEF PathHeaders, Heads, IsHeader
<1>8. \A n : PathHeader(n) = NthHead(file, n)
  BY <1>7, Zenon DEF PathHeader, NthHead, Rank
<1>9. StoredPaths = Stored(file)
  BY <1>7, Zenon DEF StoredPaths, Stored
<1> QED BY <1>4, <1>5, <1>6, <1>8, <1>9

\* So a file that has been read is in the struct as its lines say.
LEMMA ReadAsWritten == ASSUME TypeInv, ParseInv PROVE ParsedAsWritten
<1>1. file \in Seq(Line)
  BY DEF TypeInv
<1>2. SaysSections(file, new) /\ SaysPaths(file, new)
  BY DEF ParseInv
<1>3. \A s \in DOMAIN DefaultSections : \A x \in DOMAIN DefaultSections[s] :
         new.set[s][x] = LastOf({i \in KeyLines(x) : Under(i) = s}, DefaultSections[s][x])
  <2> SUFFICES ASSUME NEW s \in DOMAIN DefaultSections, NEW x \in DOMAIN DefaultSections[s]
               PROVE  new.set[s][x] = LastOf({i \in KeyLines(x) : Under(i) = s},
                                             DefaultSections[s][x])
    OBVIOUS
  <2>1. new.set[s][x] = LastValue(file, InSection(file, x, s), DefaultSections[s][x])
    BY <1>2 DEF SaysSections, Sections
  <2>2. /\ {i \in KeyLines(x) : Under(i) = s} = InSection(file, x, s)
        /\ LastOf(InSection(file, x, s), DefaultSections[s][x])
              = LastValue(file, InSection(file, x, s), DefaultSections[s][x])
    BY <1>1, SaidOfFile
  <2> QED BY <2>1, <2>2, Zenon
<1>4. Len(new.paths) = StoredPaths
  BY <1>1, <1>2, SaidOfFile, Zenon DEF SaysPaths
<1>5. ASSUME NEW n \in 1..StoredPaths
      PROVE  /\ new.paths[n].name = file[PathHeader(n)].section
             /\ \A x \in DOMAIN DefaultPath :
                   new.paths[n].set[x] =
                       LastOf({i \in KeyLines(x) : HeaderOf(i) = PathHeader(n)}, DefaultPath[x])
  <2>1. /\ new.paths[n].name = file[NthHead(file, n)].section
        /\ \A x \in PathKeys : new.paths[n].set[x] =
              LastValue(file, Below(file, x, NthHead(file, n)), DefaultPath[x])
    <3>1. n \in 1..Stored(file)
      BY <1>1, SaidOfFile, Zenon
    <3> QED BY <1>2, <3>1 DEF SaysPaths
  <2>2. PathHeader(n) = NthHead(file, n)
    BY <1>1, SaidOfFile, Zenon
  <2>3. ASSUME NEW x \in PathKeys
        PROVE  /\ {i \in KeyLines(x) : HeaderOf(i) = NthHead(file, n)}
                     = Below(file, x, NthHead(file, n))
               /\ LastOf(Below(file, x, NthHead(file, n)), DefaultPath[x])
                     = LastValue(file, Below(file, x, NthHead(file, n)), DefaultPath[x])
    BY <1>1, SaidOfFile
  <2>4. ASSUME NEW x \in PathKeys
        PROVE  new.paths[n].set[x] =
                  LastOf({i \in KeyLines(x) : HeaderOf(i) = PathHeader(n)}, DefaultPath[x])
    BY <2>1, <2>2, <2>3, Zenon
  <2> QED BY <2>1, <2>2, <2>4, Zenon DEF PathKeys
<1> QED BY <1>3, <1>4, <1>5 DEF ParsedAsWritten

\* config_load reads every file, of any lines and any length, at the start and
\* at every reload, as its lines say: a key counts under the last header before
\* it, the last value of a key wins, what is not given has its default, and
\* the keys of a path beyond MAX_PATHS change no other path.
THEOREM ParsedFaithfully == Spec => []ParsedAsWritten
<1>1. TypeInv /\ ParseInv => ParsedAsWritten
  BY ReadAsWritten
<1> QED BY <1>1, TypeInvariant, ParseInvariant, PTL

\* A reload of any file gives every path of the running gateway weight and
\* enabled as the file says under its path header at the same place, and
\* leaves them when it has fewer.
THEOREM SectionAtPlaceTaken == Spec => ReloadTakesSectionAtPlace
<1> DEFINE Said(i, x) ==
              LastOf({l \in KeyLines(x) : HeaderOf(l) = PathHeader(i)}, DefaultPath[x])
           Taken == \A i \in DOMAIN cfg.paths : \A x \in {"weight", "enabled"} :
                       cfg'.paths[i].set[x] =
                           IF i > StoredPaths THEN cfg.paths[i].set[x] ELSE Said(i, x)
<1>1. ASSUME TypeInv, ParseInv, Next, started, pc = "loaded" PROVE Taken
  <2>1. Reload
    BY <1>1 DEF Next, ReadLine, EndOfFile, OpenFails, Start, Hup
  <2>2. IsConfig(cfg) /\ IsConfig(new)
    BY <1>1 DEF TypeInv
  <2>3. /\ cfg.paths \in Seq(PathType) /\ new.paths \in Seq(PathType)
        /\ DOMAIN cfg.paths = 1..Len(cfg.paths) /\ Len(new.paths) \in Nat
    BY <2>2 DEF IsConfig
  <2>4. /\ Len(new.paths) = StoredPaths
        /\ \A n \in 1..StoredPaths : \A x \in DOMAIN DefaultPath : new.paths[n].set[x] = Said(n, x)
    BY <1>1, ReadAsWritten DEF ParsedAsWritten
  <2> HIDE DEF Said
  <2>5. ASSUME NEW i \in 1..Len(cfg.paths), NEW x \in {"weight", "enabled"}
        PROVE  cfg'.paths[i].set[x] =
                  IF i > StoredPaths THEN cfg.paths[i].set[x] ELSE Said(i, x)
    <3>1. cfg'.paths[i] = Overlay(cfg.paths, new.paths, i)
      BY <2>1, <2>2, ReloadFacts
    <3>2. CASE i > StoredPaths
      <4>1. Overlay(cfg.paths, new.paths, i) = cfg.paths[i]
        BY <2>4, <3>2 DEF Overlay
      <4> QED BY <3>1, <3>2, <4>1
    <3>3. CASE ~(i > StoredPaths)
      <4>1. i \in 1..Len(new.paths) /\ i \in 1..StoredPaths
        BY <2>3, <2>4, <3>3
      <4>2. Overlay(cfg.paths, new.paths, i).set[x] = new.paths[i].set[x]
        BY <2>3, <4>1, OverlayFacts
      <4>3. new.paths[i].set[x] = Said(i, x)
        BY <2>4, <4>1 DEF DefaultPath
      <4> QED BY <3>1, <3>3, <4>2, <4>3
    <3> QED BY <3>2, <3>3
  <2> QED BY <2>3, <2>5
<1>2. TypeInv /\ ParseInv /\ [Next]_vars => [started /\ pc = "loaded" => Taken]_vars
  BY <1>1
<1> QED BY <1>2, TypeInvariant, ParseInvariant, PTL DEF Spec, ReloadTakesSectionAtPlace
=============================================================================
