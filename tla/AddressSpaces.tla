---------------------------- MODULE AddressSpaces ----------------------------
(***************************************************************************)
(* What the page tables of the kernel are for, without page tables: a      *)
(* sequence of address spaces, each a function from virtual pages to       *)
(* physical pages.  Pages are asked for and then entered in the newest     *)
(* space one by one, where nothing is mapped yet, and stay.  A page is the *)
(* linear image of a physical page, for the kernel alone, or has a frame   *)
(* of its own, for a user program.  Mapping.tla is the implementation.     *)
(***************************************************************************)
EXTENDS Integers, Sequences

CONSTANTS VPage,         \* virtual pages
          Frame,         \* physical pages that can be handed out
          KernelOffset,  \* the virtual page of physical page 0
          Unmapped

VARIABLES maps,  \* maps[i][v]: physical page and rights of v in the i-th space
          asked  \* pages asked for and not entered, in order

Asked ==
  {page \in [vpn : VPage, flags : SUBSET {"R", "W", "X", "U"}, framed : BOOLEAN] :
     page.framed <=> "U" \in page.flags}

Init == maps = << >> /\ asked = << >>

New ==
  /\ asked = << >> /\ asked' \in Seq(Asked)
  /\ maps' = Append(maps, [v \in VPage |-> Unmapped])

Ask ==
  /\ asked = << >> /\ asked' \in Seq(Asked)
  /\ UNCHANGED maps

Newest == Len(maps)

\* Frames that a user program of any space can reach.
UserFrames ==
  UNION {{maps[i][v].ppn : v \in {u \in VPage : "U" \in maps[i][u].flags}} : i \in 1 .. Newest}

\* Physical pages that will do for a page: one, or any that nobody has.
Targets(page) == IF page.framed THEN Frame \ UserFrames ELSE {page.vpn - KernelOffset}

Map ==
  /\ asked # << >> /\ asked' = Tail(asked)
  /\ LET page == Head(asked)
         at == maps'[Newest][page.vpn]
     IN /\ maps[Newest][page.vpn] = Unmapped
        /\ at.ppn \in Targets(page) /\ at.flags = page.flags
        /\ maps' = [maps EXCEPT ![Newest][page.vpn] = at]

Next == New \/ Ask \/ Map

Spec == Init /\ [][Next]_<<maps, asked>>
==============================================================================
