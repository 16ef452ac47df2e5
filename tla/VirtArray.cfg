CONSTANTS
    rows_in_array = 4
    maxaccess = 2
    Value = {0, 1}
    Zero = 0
    Heights = {1, 2}
SPECIFICATION Spec
INVARIANTS StoreRight
PROPERTIES ArraySpec NoHoles
