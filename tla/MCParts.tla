------------------------------- MODULE MCParts -------------------------------
(***************************************************************************)
(* The components that can be checked each by itself, in one instance:      *)
(* the initial state chooses one of them and the others do not move.  The   *)
(* names of those that are extended here differ by a prefix.               *)
(***************************************************************************)
EXTENDS MCTimers, GpioExti, Usart, LibCache, Pacer, ClockTree, ProjectFiles

CONSTANTS Parts

VARIABLES part

\* Single, half, triple and unlimited speed.
MCSpeeds == {<<1, 1>>, <<1, 2>>, <<3, 1>>, <<0, 1>>}

\* The presets, other trees near the limits, one whose PLL input does not
\* divide (M 6), and prescalers on both sides of the missing AHB /32.
MCSettings ==
    [sysclk : {"hsi", "hse"}, src : {"hse"}, m : {4}, n : {168}, p : {2}, q : {7},
     ahb : {1, 64}, apb1 : {1}, apb2 : {1, 16}]
    \cup {[sysclk |-> "pll", src |-> pll[1], m |-> pll[2], n |-> pll[3], p |-> pll[4], q |-> pll[5],
           ahb |-> bus[1], apb1 |-> bus[2], apb2 |-> bus[3]] :
          pll \in {<<"hse", 4, 168, 2, 7>>, <<"hsi", 8, 168, 4, 7>>, <<"hse", 6, 96, 2, 4>>},
          bus \in {<<1, 4, 2>>, <<2, 2, 1>>, <<16, 1, 1>>, <<1, 2, 1>>}}

ASSUME Distinct /\ PacerAssumption /\ ClockAssumption /\ FilesAssumption

PartsInit ==
    /\ part \in Parts
    /\ Init /\ ExtiInit /\ UsartInit /\ CacheInit /\ PacerInit /\ ClockInit /\ FilesInit
    /\ part # "timers" => "TIM" \in uses
    /\ part # "pacer" => hz = 4
    /\ part # "files" => disk = CHOOSE text \in Texts : TRUE

Only(p) ==
    /\ part = p /\ UNCHANGED part
    /\ p # "timers" => UNCHANGED vars
    /\ p # "exti"   => UNCHANGED extiVars
    /\ p # "usart"  => UNCHANGED usartVars
    /\ p # "pacer"  => UNCHANGED pacerVars
    /\ p # "cache"  => UNCHANGED cacheVars
    /\ p # "clock"  => UNCHANGED clockVars
    /\ p # "files"  => UNCHANGED fileVars

PartsNext ==
    \/ Only("timers") /\ Next
    \/ Only("exti")   /\ ExtiNext
    \/ Only("usart")  /\ UsartNext
    \/ Only("pacer")  /\ PacerNext
    \/ Only("cache")  /\ CacheNext
    \/ Only("clock")  /\ ClockNext
    \/ Only("files")  /\ FilesNext

PartsSpec ==
    PartsInit /\ [][PartsNext]_<<part, vars, extiVars, usartVars, pacerVars, cacheVars, clockVars, fileVars>>

PartsTypeOK ==
    /\ TypeOK /\ ExtiTypeOK /\ UsartTypeOK /\ CacheTypeOK
    /\ PacerTypeOK /\ ClockTypeOK /\ FilesTypeOK
=============================================================================
