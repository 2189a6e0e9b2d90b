-------------------------- MODULE MCCharacterStore --------------------------
EXTENDS CharacterStore

CONSTANTS c1, x1, x2, order, manifest

OneCharacter == {c1}
TwoChats == {x1, x2}
LastChat == {x2}
OwnerOfAll == [x \in TwoChats |-> c1]
OneManifest == [c \in OneCharacter |-> manifest]
=============================================================================
