-------------------------- MODULE MCPluginManager --------------------------
(***************************************************************************)
(* Instances of PluginManager for TLC, after the plugins of                *)
(* PluginManager/Test: animals, and food that depends on animals.  Every   *)
(* instance has two managers, Food before Animals by address.              *)
(***************************************************************************)
EXTENDS PluginManager

Food == 1
Animals == 2

File(depends, provides, valid, deletable) ==
    [depends |-> depends, provides |-> provides, valid |-> valid, deletable |-> deletable]

\* Names, a dependent before what it depends on, unless that is static.
Hotdog == 1
Ape == 2
Beagle == 3
Canis == 4
Pet == 5

OrderedNames == 1 .. 5

\* Beagle needs Canis and the static Ape, Hotdog needs two animals, one
\* of which needs the other.  Beagle and Canis are pets; in the other directory
\* Canis is not, and Beagle is broken.
OrderedCatalog ==
    (Food :>
        ("here" :> (Hotdog :> File(<<Beagle, Canis>>, {}, TRUE, FALSE))
      @@ "there" :> <<>>))
    @@
    (Animals :>
        ("here" :> (Beagle :> File(<<Canis, Ape>>, {Pet}, TRUE, TRUE)
                 @@ Canis :> File(<<>>, {Pet}, TRUE, FALSE))
      @@ "there" :> (Beagle :> File(<<>>, {}, FALSE, FALSE)
                  @@ Canis :> File(<<>>, {}, TRUE, FALSE))))

OrderedStatic == (Food :> <<>>) @@ (Animals :> (Ape :> File(<<>>, {Pet}, TRUE, FALSE)))

\* These plugins meet the conditions of the theorems; each of the others
\* fails at least one (dependents first, distinct names, no cycle).
ASSUME OrderedAssumption ==
    Catalog = OrderedCatalog =>
        NamesDistinct /\ Ranks([n \in Names |-> 5 - n]) /\ DependentsFirst

-----------------------------------------------------------------------------
\* As in the tests: PitBull depends on Dog, which sorts first.

Dog == 1
PitBull == 2

DogNames == {Dog, PitBull}

DogCatalog ==
    (Food :> ("here" :> <<>>))
    @@
    (Animals :> ("here" :> (Dog :> File(<<>>, {}, TRUE, FALSE)
                         @@ PitBull :> File(<<Dog>>, {}, TRUE, FALSE))))

NoStatic == [m \in {Food, Animals} |-> <<>>]

-----------------------------------------------------------------------------
\* HotDog depends on an animal whose name is also that of a food elsewhere.

HotDog == 2

FoodNames == {Dog, HotDog}

FoodCatalog ==
    (Food :> ("here" :> (HotDog :> File(<<Dog>>, {}, TRUE, FALSE))
           @@ "there" :> (Dog :> File(<<>>, {}, TRUE, FALSE))))
    @@
    (Animals :> ("here" :> (Dog :> File(<<>>, {}, TRUE, FALSE))
              @@ "there" :> <<>>))

-----------------------------------------------------------------------------
\* PitBull depends on Dog here, and Dog on PitBull there: neither directory has
\* a cycle, but the Dog of the other one closes one.

CrossCatalog ==
    (Food :> ("here" :> <<>> @@ "there" :> <<>>))
    @@
    (Animals :> ("here" :> (Dog :> File(<<>>, {}, TRUE, FALSE)
                         @@ PitBull :> File(<<Dog>>, {}, TRUE, FALSE))
              @@ "there" :> (Dog :> File(<<PitBull>>, {}, TRUE, FALSE))))
=============================================================================
