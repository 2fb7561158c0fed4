-------------------------------- MODULE GeoIp --------------------------------
(* The offline Geo-IP database (engine/geoip.py): range files are compiled  *)
(* into a directory that is swapped in by two renames, while a process that *)
(* analyses a case opens the directory, loads its tables on first use and   *)
(* looks addresses up.  Addresses are numbers of one version.               *)
EXTENDS Integers, Sequences, FiniteSets, SequencesExt

CONSTANTS Null,
          Databases,  \* source files: a sequence of rows per kind of table
          Addresses,  \* addresses somebody may ask for
          Public,     \* those of them that are neither private nor reserved
          MaxInstalls, MaxLookups, \* bounds of the exploration
          MaxFaults   \* crashes of, and failing renames in, a compilation

Directory(source, stamp) == [source |-> source, stamp |-> stamp]

ASSUME BoundsAssumption == MaxInstalls \in Nat /\ MaxFaults \in Nat
ASSUME NullAssumption ==
    /\ Null \notin Nat
    /\ \A source \in Databases, n \in 1 .. MaxInstalls : Directory(source, n) # Null

Kinds == <<"country", "asn">>
Parts == <<"start", "end", "value">>

Ranges(values) == [from : Nat, to : Nat, value : values]

\* The end of a range is not compared with its start, here or in the code.
ASSUME DatabasesAssumption ==
    /\ \A source \in Databases, n \in DOMAIN Kinds :
           LET rows == source[Kinds[n]]
           IN rows \in Seq(Ranges({rows[i].value : i \in DOMAIN rows}))
    /\ Addresses \subseteq Nat

-----------------------------------------------------------------------------
(* Compilation of one kind: rows [from, to, value], Null for a value that   *)
(* is not one (ZZ, AS0, a malformed line).                                  *)

Add(kept, row) == IF row.value = Null THEN kept ELSE Append(kept, row)

Kept(rows) == FoldLeft(Add, << >>, rows)

(* dict.setdefault(code, len): codes in the order they were first met.      *)
Meet(codes, row) == IF row.value \in Range(codes) THEN codes ELSE Append(codes, row.value)

Codes(rows) == FoldLeft(Meet, << >>, Kept(rows))

RowLess(rows, i, j) ==
    \/ rows[i].from < rows[j].from
    \/ rows[i].from = rows[j].from /\ rows[i].to < rows[j].to
    \/ rows[i].from = rows[j].from /\ rows[i].to = rows[j].to /\ i < j

Ordered(rows) ==
    [n \in DOMAIN rows |->
        rows[CHOOSE i \in DOMAIN rows : Cardinality({j \in DOMAIN rows : RowLess(rows, j, i)}) = n - 1]]

\* Mutant: an overlapping range is kept whole.
MergeWhole(merged, row) == Append(merged, row)

(* An overlap is trimmed off the later range; what is left of none is gone. *)
Merge(merged, row) ==
    IF merged = << >> \/ row.from > Last(merged).to THEN Append(merged, row)
    ELSE IF Last(merged).to >= row.to THEN merged
    ELSE Append(merged, [row EXCEPT !.from = Last(merged).to + 1])

Table(rows) == FoldLeft(Merge, << >>, Ordered(Kept(rows)))

(* Countries are stored as places in the manifest's list, ASNs as numbers.  *)
Stored(source, kind, value) ==
    IF kind = "asn" THEN value ELSE CHOOSE n \in DOMAIN Codes(source[kind]) : Codes(source[kind])[n] = value

Column(source, kind, part) ==
    LET table == Table(source[kind])
    IN [n \in DOMAIN table |->
           CASE part = "start" -> table[n].from
             [] part = "end" -> table[n].to
             [] part = "value" -> Stored(source, kind, table[n].value)]

ASSUME TablesAssumption ==
    \A source \in Databases, kind \in Range(Kinds) : [part \in Range(Parts) |-> Column(source, kind, part)] # Null

(* bisect_right(starts, ip) - 1, counted from one.                          *)
Find(columns, ip) ==
    LET n == Cardinality({i \in DOMAIN columns["start"] : columns["start"][i] <= ip})
    IN IF n > 0 /\ n <= Len(columns["end"]) /\ n <= Len(columns["value"]) /\ ip <= columns["end"][n]
       THEN columns["value"][n] ELSE Null

-----------------------------------------------------------------------------
VARIABLES final, previous, staged, \* directories: [source, stamp], or Null
          compiler, \* the step of compile_database in progress, or "idle"
          installs, \* manifests written so far: the next one's mtime
          faults,
          cached,   \* _OPEN: the database this process has open, or Null
          reader,   \* the analysis: its step, address and answer
          lookups

geoVars == <<final, previous, staged, compiler, installs, faults, cached, reader, lookups>>

Closed == [step |-> "closed", stamp |-> Null, ip |-> Null, load |-> << >>, answer |-> Null]

GeoInit ==
    /\ final = Null /\ previous = Null /\ staged = Null
    /\ compiler = "idle" /\ installs = 0 /\ faults = 0
    /\ cached = Null /\ reader = Closed /\ lookups = 0

(* Everything is written into a fresh directory, the manifest last.         *)
Stage(source) ==
    /\ compiler = "idle" /\ installs < MaxInstalls
    /\ staged' = Directory(source, installs + 1)
    /\ installs' = installs + 1
    /\ compiler' = "clear"
    /\ UNCHANGED <<final, previous, faults, cached, reader, lookups>>

ClearPrevious ==
    /\ compiler = "clear"
    /\ previous' = Null
    /\ compiler' = IF final = Null THEN "install" ELSE "aside"
    /\ UNCHANGED <<final, staged, installs, faults, cached, reader, lookups>>

\* Mutant: the old directory is removed, not moved.
Discard ==
    /\ compiler = "aside"
    /\ final' = Null /\ compiler' = "install"
    /\ UNCHANGED <<previous, staged, installs, faults, cached, reader, lookups>>

MoveAside ==
    /\ compiler = "aside"
    /\ previous' = final /\ final' = Null
    /\ compiler' = "install"
    /\ UNCHANGED <<staged, installs, faults, cached, reader, lookups>>

Install ==
    /\ compiler = "install"
    /\ final' = staged /\ staged' = Null
    /\ compiler' = "tidy"
    /\ UNCHANGED <<previous, installs, faults, cached, reader, lookups>>

Tidy ==
    /\ compiler = "tidy"
    /\ previous' = Null
    /\ compiler' = "idle"
    /\ UNCHANGED <<final, staged, installs, faults, cached, reader, lookups>>

(* An exception removes the staging directory and puts nothing back; a      *)
(* crash leaves it where nobody will look for it.                           *)
Abandon ==
    /\ compiler # "idle" /\ faults < MaxFaults
    /\ faults' = faults + 1
    /\ staged' = Null /\ compiler' = "idle"
    /\ UNCHANGED <<final, previous, installs, cached, reader, lookups>>

-----------------------------------------------------------------------------
(* The analysis: open_database once, then lookup per address.               *)

Stat ==
    /\ reader.step = "closed"
    /\ reader' = IF final = Null THEN Closed
                 ELSE [reader EXCEPT !.stamp = final.stamp,
                                     !.step = IF cached # Null /\ cached.stamp = final.stamp THEN "open" ELSE "manifest"]
    /\ UNCHANGED <<final, previous, staged, compiler, installs, faults, cached, lookups>>

(* GeoIPDatabase(root): the manifest may be gone, or another, by now.       *)
ReadManifest ==
    /\ reader.step = "manifest"
    /\ IF final = Null THEN reader' = Closed /\ UNCHANGED cached
       ELSE /\ cached' = [stamp |-> reader.stamp, countries |-> Codes(final.source["country"]),
                          tables |-> [kind \in {} |-> Null], from |-> {final}]
            /\ reader' = [reader EXCEPT !.step = "open"]
    /\ UNCHANGED <<final, previous, staged, compiler, installs, faults, lookups>>

(* A non-public address is answered without any table.                      *)
Ask(ip) ==
    /\ reader.step \in {"open", "answered"} /\ lookups < MaxLookups
    /\ reader' = [reader EXCEPT !.step = IF ip \in Public THEN "lookup" ELSE "answered", !.ip = ip,
                                !.answer = [kind \in Range(Kinds) |-> Null]]
    /\ lookups' = lookups + 1
    /\ UNCHANGED <<final, previous, staged, compiler, installs, faults, cached>>

(* _table: the first lookup that needs a kind reads its files, one by one,  *)
(* from whatever directory bears the name; no start file means no table.    *)
Missing == {n \in DOMAIN Kinds : Kinds[n] \notin DOMAIN cached.tables}
NextKind == Kinds[CHOOSE n \in Missing : \A m \in Missing : n <= m]

Remember(kind, table) == [k \in DOMAIN cached.tables \cup {kind} |-> IF k = kind THEN table ELSE cached.tables[k]]

LoadPart ==
    LET part == Parts[Len(reader.load) + 1]
        load == Append(reader.load, Column(final.source, NextKind, part))
    IN /\ reader.step = "lookup" /\ Missing # {} /\ final # Null
       /\ cached' = [cached EXCEPT !.from = @ \cup {final},
                                   !.tables = IF Len(load) < 3 THEN @
                                              ELSE Remember(NextKind, [p \in Range(Parts) |->
                                                       load[CHOOSE n \in DOMAIN Parts : Parts[n] = p]])]
       /\ reader' = [reader EXCEPT !.load = IF Len(load) < 3 THEN load ELSE << >>]
       /\ UNCHANGED <<final, previous, staged, compiler, installs, faults, lookups>>

NoFiles ==
    /\ reader.step = "lookup" /\ Missing # {} /\ final = Null
    /\ IF reader.load = << >>
       THEN /\ cached' = [cached EXCEPT !.tables = Remember(NextKind, Null), !.from = @ \cup {Null}]
            /\ UNCHANGED reader
       ELSE reader' = Closed /\ UNCHANGED cached \* FileNotFoundError: the analysis fails
    /\ UNCHANGED <<final, previous, staged, compiler, installs, faults, lookups>>

Held(kind, ip) ==
    LET place == IF cached.tables[kind] = Null THEN Null ELSE Find(cached.tables[kind], ip)
    IN CASE place = Null -> Null
         [] place # Null /\ kind = "asn" -> place
         [] OTHER -> IF place \in DOMAIN cached.countries THEN cached.countries[place] ELSE "IndexError"

Answer ==
    /\ reader.step = "lookup" /\ Missing = {}
    /\ reader' = [reader EXCEPT !.step = "answered", !.answer = [kind \in Range(Kinds) |-> Held(kind, reader.ip)]]
    /\ UNCHANGED <<final, previous, staged, compiler, installs, faults, cached, lookups>>

Close ==
    /\ reader.step \in {"open", "answered"}
    /\ reader' = Closed
    /\ UNCHANGED <<final, previous, staged, compiler, installs, faults, cached, lookups>>

GeoNext ==
    \/ \E source \in Databases : Stage(source)
    \/ ClearPrevious \/ MoveAside \/ Install \/ Tidy \/ Abandon
    \/ Stat \/ ReadManifest \/ LoadPart \/ NoFiles \/ Answer \/ Close
    \/ \E ip \in Addresses : Ask(ip)

GeoSpec == GeoInit /\ [][GeoNext]_geoVars

-----------------------------------------------------------------------------
(* Properties.                                                              *)

GeoTypeOK ==
    /\ compiler \in {"idle", "clear", "aside", "install", "tidy"}
    /\ reader.step \in {"closed", "manifest", "open", "lookup", "answered"}
    /\ compiler \in {"clear", "aside", "install"} => staged # Null
    /\ reader.step \in {"open", "lookup", "answered"} => cached # Null

(* What a source says of an address: its first listed range, by start, then *)
(* end, then place, that holds the address (geoip.py:198).                  *)
Says(source, kind, ip) ==
    LET rows == Ordered(Kept(source[kind]))
        holding == {n \in DOMAIN rows : rows[n].from <= ip /\ ip <= rows[n].to}
    IN IF ip \notin Public \/ holding = {} THEN Null ELSE rows[CHOOSE n \in holding : \A m \in holding : n <= m].value

AnswerOf(source, ip) == [kind \in Range(Kinds) |-> Says(source, kind, ip)]

(* The cache heals: an open database that passes for the installed one was  *)
(* read from it entirely, whatever was moved while it was being read        *)
(* (open_database "reopened when it is recompiled").                        *)
CurrentCacheIsWhole ==
    cached # Null /\ final # Null /\ cached.stamp = final.stamp => cached.from = {final}

(* Sorting, trimming, interning and bisection lose nothing: a database read *)
(* from one directory answers as its source's first range does, also when   *)
(* another has been installed since (geoip.py:172-209); and the cache heals. *)
OneDirectoryIsRight ==
    /\ CurrentCacheIsWhole
    /\ reader.step = "answered" =>
           \A directory \in cached.from :
               cached.from = {directory} /\ directory # Null => reader.answer = AnswerOf(directory.source, reader.ip)

(* One crash or failed rename does not lose the database: once one was      *)
(* installed, a complete directory is left under some name until another    *)
(* compilation, which clears `.previous` first, fails too (geoip.py:481-493). *)
SomethingIsLeft ==
    [](final # Null => [](faults <= 1 => \E directory \in {final, previous, staged} : directory # Null))

(* A lookup "says which country/ASN the database assigns" (geoip.py:21-22): *)
(* whatever it does say, some compiled database says of that address.       *)
AssignedByADatabase ==
    reader.step = "answered" =>
        \A kind \in Range(Kinds) :
            reader.answer[kind] # Null => \E source \in Databases : reader.answer[kind] = Says(source, kind, reader.ip)
=============================================================================
