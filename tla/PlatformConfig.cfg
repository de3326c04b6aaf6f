SPECIFICATION Spec
CONSTANTS
    Tab = {t1, t2}
    Edit <- MCEdit
    MaxPublications = 1
    MaxFaults = 1
SYMMETRY Tabs
INVARIANTS WhatIsWrittenCanBeRead AsIfOneByOne
PROPERTY WedgedForGood
