------------------------------- MODULE NvsMap -------------------------------
(* What the non-volatile storage library promises                          *)
(* (src/components/nvs_flash/README.rst:70): a map from keys to values in  *)
(* which every operation takes effect at once or not at all, whatever the  *)
(* moment the power fails.                                                 *)
EXTENDS Naturals

CONSTANTS
    Names,      \* the names of keys
    NsOf,       \* the namespace of each name
    ValsOf      \* the values each name is set to: records with a type, among others

VARIABLES
    map,        \* the value of each key (a name and a type), or NoVal
    up,         \* the library is initialized
    call        \* the last operation and how it ended

NoVal == [type |-> "none"]
Keys == UNION {{<<n, v.type>> : v \in ValsOf[n]} : n \in Names}
KeysNamed(n) == {k \in Keys : k[1] = n}
KeysOf(ns) == {k \in Keys : NsOf[k[1]] = ns}

Init == /\ map = [k \in Keys |-> NoVal]
        /\ up = FALSE
        /\ call = <<<<"none">>, "OK">>

PowerUp == /\ ~up
           /\ \E end \in {"OK", "cut"} : call' = <<<<"init">>, end>> /\ up' = (end = "OK")
           /\ UNCHANGED map
PowerDown == up /\ up' = FALSE /\ call' = <<<<"deinit">>, "cut">> /\ UNCHANGED map

\* An operation turns the map into m, reports an error and leaves it, or is cut
\* by a power failure and does either.
Does(op, m) ==
    /\ up
    /\ \/ call' = <<op, "OK">> /\ up' = TRUE /\ map' = m
       \/ call' = <<op, "error">> /\ up' = TRUE /\ map' = map
       \/ call' = <<op, "cut">> /\ up' = FALSE /\ map' \in {map, m}

Set(n, v) == Does(<<"set", n, v>>, [map EXCEPT ![<<n, v.type>>] = v])
Erase(n) == \E k \in KeysNamed(n) :
               /\ map[k] # NoVal \/ \A j \in KeysNamed(n) : map[j] = NoVal
               /\ Does(<<"erase", n>>, [map EXCEPT ![k] = NoVal])

\* The keys of a namespace go one by one: a power failure keeps any of them.
EraseAll(ns) ==
    \E gone \in SUBSET KeysOf(ns) :
       /\ Does(<<"erase_all", ns>>, [k \in Keys |-> IF k \in gone THEN NoVal ELSE map[k]])
       /\ call'[2] # "cut" => gone = KeysOf(ns)

Next == \/ PowerUp
        \/ PowerDown
        \/ \E n \in Names : \E v \in ValsOf[n] : Set(n, v)
        \/ \E n \in Names : Erase(n)
        \/ \E ns \in {NsOf[n] : n \in Names} : EraseAll(ns)

Spec == Init /\ [][Next]_<<map, up, call>>
=============================================================================
